---- MODULE Spec2Model ----
(***************************************************************************)
(* Class roster (classManagement) and availability matching                *)
(* (availabilityManagement) of class-scheduler-functions.                  *)
(*                                                                         *)
(* The document store is the only shared state.  Every handler is a        *)
(* request that runs from one store call (await) to the next; a step of    *)
(* the model is one store call together with the synchronous code that     *)
(* follows it up to the next await or to the response.                     *)
(***************************************************************************)
EXTENDS Integers, Sequences, FiniteSets, TLC

VARIABLES classTypes, classes, avail, reqs

vars == <<classTypes, classes, avail, reqs>>

----------------------------------------------------------------------------
(* Bounds of the model *)

MaxReq == 2        \* joinClass/leaveClass requests issued in a concurrent run
MaxSeqReq == 3     \* joinClass/leaveClass requests issued in a sequential run
MaxSeed == 2       \* length of initialMembers passed to createClass
MaxSpots == 2      \* largest totalSpots passed to createClass
MaxSubmit == 3     \* submitAvailability requests issued in a sequential run
MaxConcSubmit == 2 \* submitAvailability requests issued in a concurrent run
MaxFind == 1       \* findMatches requests issued in a run
MaxAdminReq == 2   \* requests on an existing class in a run with updateClass
MaxTypeReq == 2    \* deleteClassType, updateClass and deleteClass requests in a run
MaxFailReq == 2    \* requests on a class in a run with failing store calls
MaxBadReq == 2     \* requests without a known action in a run
MaxFailSubmit == 2 \* submissions in a run whose slot checks may fail
MaxNotifyReq == 1  \* newMatch requests in a run
MaxUserIds == 2    \* longest userIds list of a newMatch request
MaxStatsReq == 3   \* updateClass and getAllClasses requests in a run
MaxLifeReq == 4    \* cancel, reactivate, delete and listing requests in a run

(* Input domains *)

Users == {"u1", "u2", "u3"}
Names == {"Alice"}
ClassIds == {"c1"}
ClassTypeIds == {"ct1"}
Days == {"Monday"}
Times == {"6:00 PM"}

(* Program constants *)

DefaultTotalSpots == 5

----------------------------------------------------------------------------
(* Member strings.  classManagement stores each member as a JSON string    *)
(* and parses it back on every membership test.  A member string is        *)
(* modelled as the tuple of the serialized fields; any other tuple is a    *)
(* string JSON.parse (or the .userId access) rejects.                      *)

JSONstringify(member) == <<member.userId, member.name, member.joinedAt>>

Unparsable == <<"not json">>

ParseThrows(memberStr) == Len(memberStr) # 3

JSONparse(memberStr) ==
    [userId |-> memberStr[1], name |-> memberStr[2], joinedAt |-> memberStr[3]]

\* existingMembers.some(memberStr => { try {...userId === data.userId} catch { false } })
IsMemberString(memberStr, userId) ==
    IF ParseThrows(memberStr) THEN FALSE ELSE JSONparse(memberStr).userId = userId

\* the membership test compares the member's name, not its userId, with data.userId
userAlreadyJoined_compareName(members, userId) ==
    \E i \in 1..Len(members) :
        IF ParseThrows(members[i]) THEN FALSE ELSE JSONparse(members[i]).name = userId

userAlreadyJoined(members, userId) ==
    \E i \in 1..Len(members) : IsMemberString(members[i], userId)

\* the catch of the filter drops the member string instead of keeping it
KeepOnLeave_dropUnparsable(memberStr, userId) ==
    IF ParseThrows(memberStr) THEN FALSE ELSE JSONparse(memberStr).userId # userId

\* currentMembers.filter(memberStr => { try {...userId !== data.userId} catch { true } })
KeepOnLeave(memberStr, userId) ==
    IF ParseThrows(memberStr) THEN TRUE ELSE JSONparse(memberStr).userId # userId

RECURSIVE FilterLeave(_, _)
FilterLeave(members, userId) ==
    IF members = <<>> THEN <<>>
    ELSE IF KeepOnLeave(Head(members), userId)
         THEN <<Head(members)>> \o FilterLeave(Tail(members), userId)
         ELSE FilterLeave(Tail(members), userId)

\* optional numeric input: <<>> when the field is absent, <<n>> when supplied
\* (x || d): absent and 0 are both falsy
OrDefault(x, d) == IF x = <<>> THEN d ELSE IF x[1] = 0 THEN d ELSE x[1]

----------------------------------------------------------------------------
(* Responses *)

ErrDocNotFound == "Document with the requested ID could not be found."
ErrClassTypeRequired == "classTypeId is required for creating a class."
ErrClassTypeNotFound == "Invalid classTypeId: Class type not found."

\* catch (e) of the classManagement handler: no action field is echoed
ClassCatchResponse(e) ==
    [status |-> 500, success |-> FALSE,
     message |-> CASE e = ErrDocNotFound ->
                        "Class operation failed: Document with the requested ID could not be found."
                   [] e = ErrClassTypeRequired ->
                        "Class operation failed: classTypeId is required for creating a class."
                   [] e = ErrClassTypeNotFound ->
                        "Class operation failed: Invalid classTypeId: Class type not found."
                   [] OTHER -> "Class operation failed",
     errorDetails |-> e]

RespFull ==
    [status |-> 400, success |-> FALSE, message |-> "Class is full", action |-> "joinClass"]

RespAlreadyJoined ==
    [status |-> 400, success |-> FALSE,
     message |-> "You have already joined this class", action |-> "joinClass"]

RespJoined ==
    [status |-> 200, success |-> TRUE,
     message |-> "Successfully joined class", action |-> "joinClass"]

RespNotEnrolled ==
    [status |-> 400, success |-> FALSE,
     message |-> "You are not enrolled in this class", action |-> "leaveClass"]

RespLeft ==
    [status |-> 200, success |-> TRUE,
     message |-> "Successfully left class", action |-> "leaveClass"]

RespCreated(classId) ==
    [status |-> 201, success |-> TRUE, classId |-> classId, action |-> "createClass"]

NoResp == [status |-> 0]
NoDoc == [missing |-> TRUE]

----------------------------------------------------------------------------
(* Requests.  A request record holds the payload, the handler's position   *)
(* (the store call it is suspended on, or "done"), the document it read    *)
(* (classDoc / classToLeave) and the response it sent.                     *)

NewReq(op, data) ==
    [op |-> op, data |-> data, pc |-> "done", classDoc |-> NoDoc,
     email |-> "none", resp |-> NoResp]

InFlight(r) == reqs[r].pc # "done"

Idle == \A r \in 1..Len(reqs) : ~InFlight(r)

Init ==
    /\ classTypes = {}
    /\ classes = << >>
    /\ avail = << >>
    /\ reqs = << >>

----------------------------------------------------------------------------
(* classManagement: createClassType (one createDocument, ID.unique())      *)

createClassType ==
    /\ \E id \in ClassTypeIds \ classTypes : classTypes' = classTypes \cup {id}
    /\ UNCHANGED <<classes, avail, reqs>>

(* classManagement: createClass *)

SeedUsers == {"u1"}

SeedStrings ==
    {JSONstringify([userId |-> u, name |-> "Alice", joinedAt |-> 0]) : u \in SeedUsers}
        \cup {Unparsable}

SeedLists == UNION {[1..n -> SeedStrings] : n \in 0..MaxSeed}

TotalSpotsInputs == {<< >>} \cup {<<n>> : n \in 0..MaxSpots}

ClassTypeIdInputs == {<< >>} \cup {<<ct>> : ct \in ClassTypeIds}

\* a createClass that does not look the class type up
createClassRead_noLookup(classTypeId, day, time, totalSpots, initialMembers) ==
    LET data == [classTypeId |-> classTypeId, day |-> day, time |-> time,
                 totalSpots |-> totalSpots, initialMembers |-> initialMembers]
        req == NewReq("createClass", data)
    IN /\ reqs' = Append(reqs,
            IF classTypeId = << >>
            THEN [req EXCEPT !.resp = ClassCatchResponse(ErrClassTypeRequired)]
            ELSE [req EXCEPT !.pc = "createDocument"])
       /\ UNCHANGED <<classTypes, classes, avail>>

\* payload check and getDocument(classTypes)
createClassRead(classTypeId, day, time, totalSpots, initialMembers) ==
    LET data == [classTypeId |-> classTypeId, day |-> day, time |-> time,
                 totalSpots |-> totalSpots, initialMembers |-> initialMembers]
        req == NewReq("createClass", data)
    IN /\ reqs' = Append(reqs,
            IF classTypeId = << >>
            THEN [req EXCEPT !.resp = ClassCatchResponse(ErrClassTypeRequired)]
            ELSE IF classTypeId[1] \notin classTypes
            THEN [req EXCEPT !.resp = ClassCatchResponse(ErrClassTypeNotFound)]
            ELSE [req EXCEPT !.pc = "createDocument"])
       /\ UNCHANGED <<classTypes, classes, avail>>

NewClassDoc(data) ==
    LET spots == OrDefault(data.totalSpots, DefaultTotalSpots)
        initialMembersCount == Len(data.initialMembers)
    IN [classTypeId |-> data.classTypeId[1],
        day |-> data.day,
        time |-> data.time,
        members |-> data.initialMembers,
        totalSpots |-> spots,
        spotsLeft |-> spots - initialMembersCount,
        status |-> "active"]

\* createDocument(classes, ID.unique(), {...}) and the 201 response
createClassWrite(r) ==
    /\ reqs[r].op = "createClass" /\ reqs[r].pc = "createDocument"
    /\ \E id \in ClassIds \ DOMAIN classes :
          /\ classes' = classes @@ (id :> NewClassDoc(reqs[r].data))
          /\ reqs' = [reqs EXCEPT ![r].pc = "done", ![r].resp = RespCreated(id)]
    /\ UNCHANGED <<classTypes, avail>>

----------------------------------------------------------------------------
(* classManagement: joinClass *)

\* the membership test is made before the capacity test
joinClassRead_membershipFirst(classId, userId, name) ==
    LET data == [classId |-> classId, userId |-> userId, name |-> name]
        req == NewReq("joinClass", data)
    IN /\ reqs' = Append(reqs,
            IF classId \notin DOMAIN classes
            THEN [req EXCEPT !.resp = ClassCatchResponse(ErrDocNotFound)]
            ELSE LET classDoc == classes[classId]
                     currentMembersCount == Len(classDoc.members)
                 IN IF userAlreadyJoined(classDoc.members, userId)
                    THEN [req EXCEPT !.classDoc = classDoc, !.resp = RespAlreadyJoined]
                    ELSE IF currentMembersCount >= classDoc.totalSpots
                    THEN [req EXCEPT !.classDoc = classDoc, !.resp = RespFull]
                    ELSE [req EXCEPT !.classDoc = classDoc, !.pc = "updateDocument"])
       /\ UNCHANGED <<classTypes, classes, avail>>

\* getDocument(classes, classId), the capacity test and the membership test
joinClassRead(classId, userId, name) ==
    LET data == [classId |-> classId, userId |-> userId, name |-> name]
        req == NewReq("joinClass", data)
    IN /\ reqs' = Append(reqs,
            IF classId \notin DOMAIN classes
            THEN [req EXCEPT !.resp = ClassCatchResponse(ErrDocNotFound)]
            ELSE LET classDoc == classes[classId]
                     currentMembersCount == Len(classDoc.members)
                 IN IF currentMembersCount >= classDoc.totalSpots
                    THEN [req EXCEPT !.classDoc = classDoc, !.resp = RespFull]
                    ELSE IF userAlreadyJoined(classDoc.members, userId)
                    THEN [req EXCEPT !.classDoc = classDoc, !.resp = RespAlreadyJoined]
                    ELSE [req EXCEPT !.classDoc = classDoc, !.pc = "updateDocument"])
       /\ UNCHANGED <<classTypes, classes, avail>>

\* spotsLeft is computed from the member count before the append
JoinPatch_staleCount(classDoc, data, now) ==
    LET newMember == [userId |-> data.userId, name |-> data.name, joinedAt |-> now]
        updatedMembers == Append(classDoc.members, JSONstringify(newMember))
    IN [members |-> updatedMembers,
        spotsLeft |-> classDoc.totalSpots - Len(classDoc.members)]

JoinPatch(classDoc, data, now) ==
    LET newMember == [userId |-> data.userId, name |-> data.name, joinedAt |-> now]
        updatedMembers == Append(classDoc.members, JSONstringify(newMember))
        newMembersCount == Len(updatedMembers)
    IN [members |-> updatedMembers, spotsLeft |-> classDoc.totalSpots - newMembersCount]

\* a joinClass that sends the notification along with the write
joinClassWrite_notifies(r) ==
    /\ reqs[r].op = "joinClass" /\ reqs[r].pc = "updateDocument"
    /\ LET classId == reqs[r].data.classId
           patch == JoinPatch(reqs[r].classDoc, reqs[r].data, r)
       IN IF classId \in DOMAIN classes
          THEN /\ classes' = [classes EXCEPT ![classId].members = patch.members,
                                             ![classId].spotsLeft = patch.spotsLeft]
               /\ reqs' = [reqs EXCEPT ![r].pc = "createExecution",
                                       ![r].email = "completed"]
          ELSE /\ classes' = classes
               /\ reqs' = [reqs EXCEPT ![r].pc = "done", ![r].email = "completed",
                                       ![r].resp = ClassCatchResponse(ErrDocNotFound)]
    /\ UNCHANGED <<classTypes, avail>>

\* updateDocument(classes, classId, {members, spotsLeft})
joinClassWrite(r) ==
    /\ reqs[r].op = "joinClass" /\ reqs[r].pc = "updateDocument"
    /\ LET classId == reqs[r].data.classId
           patch == JoinPatch(reqs[r].classDoc, reqs[r].data, r)
       IN IF classId \in DOMAIN classes
          THEN /\ classes' = [classes EXCEPT ![classId].members = patch.members,
                                             ![classId].spotsLeft = patch.spotsLeft]
               /\ reqs' = [reqs EXCEPT ![r].pc = "createExecution"]
          ELSE /\ classes' = classes
               /\ reqs' = [reqs EXCEPT ![r].pc = "done",
                                       ![r].resp = ClassCatchResponse(ErrDocNotFound)]
    /\ UNCHANGED <<classTypes, avail>>

EmailOutcomes == {"completed", "failed", "threw"}

\* a joinClass whose notification call is not wrapped in try/catch
joinClassNotify_uncaught(r) ==
    /\ reqs[r].op = "joinClass" /\ reqs[r].pc = "createExecution"
    /\ \E outcome \in EmailOutcomes :
          reqs' = [reqs EXCEPT ![r].pc = "done", ![r].email = outcome,
                               ![r].resp = IF outcome = "threw"
                                           THEN ClassCatchResponse("createExecution failed")
                                           ELSE RespJoined]
    /\ UNCHANGED <<classTypes, classes, avail>>

\* getDocument(classTypes) for the name, functions.createExecution(notifications)
\* and the 200 response; both failures are caught and only logged
joinClassNotify(r) ==
    /\ reqs[r].op = "joinClass" /\ reqs[r].pc = "createExecution"
    /\ \E outcome \in EmailOutcomes :
          reqs' = [reqs EXCEPT ![r].pc = "done", ![r].email = outcome,
                               ![r].resp = RespJoined]
    /\ UNCHANGED <<classTypes, classes, avail>>

----------------------------------------------------------------------------
(* classManagement: leaveClass *)

\* getDocument(classes, classId), the filter and the enrolment test
leaveClassRead(classId, userId) ==
    LET data == [classId |-> classId, userId |-> userId]
        req == NewReq("leaveClass", data)
    IN /\ reqs' = Append(reqs,
            IF classId \notin DOMAIN classes
            THEN [req EXCEPT !.resp = ClassCatchResponse(ErrDocNotFound)]
            ELSE LET classToLeave == classes[classId]
                     currentMembers == classToLeave.members
                     updatedMembersAfterLeave == FilterLeave(currentMembers, userId)
                 IN IF Len(updatedMembersAfterLeave) = Len(currentMembers)
                    THEN [req EXCEPT !.classDoc = classToLeave, !.resp = RespNotEnrolled]
                    ELSE [req EXCEPT !.classDoc = classToLeave, !.pc = "updateDocument"])
       /\ UNCHANGED <<classTypes, classes, avail>>

LeavePatch(classToLeave, data) ==
    LET updatedMembersAfterLeave == FilterLeave(classToLeave.members, data.userId)
    IN [members |-> updatedMembersAfterLeave,
        spotsLeft |-> classToLeave.totalSpots - Len(updatedMembersAfterLeave)]

\* a leaveClass that swallows the error of its write
leaveClassWrite_swallowsError(r) ==
    /\ reqs[r].op = "leaveClass" /\ reqs[r].pc = "updateDocument"
    /\ LET classId == reqs[r].data.classId
           patch == LeavePatch(reqs[r].classDoc, reqs[r].data)
       IN IF classId \in DOMAIN classes
          THEN /\ classes' = [classes EXCEPT ![classId].members = patch.members,
                                             ![classId].spotsLeft = patch.spotsLeft]
               /\ reqs' = [reqs EXCEPT ![r].pc = "done", ![r].resp = RespLeft]
          ELSE /\ classes' = classes
               /\ reqs' = [reqs EXCEPT ![r].pc = "done", ![r].resp = RespLeft]
    /\ UNCHANGED <<classTypes, avail>>

\* updateDocument(classes, classId, {members, spotsLeft}) and the 200 response
leaveClassWrite(r) ==
    /\ reqs[r].op = "leaveClass" /\ reqs[r].pc = "updateDocument"
    /\ LET classId == reqs[r].data.classId
           patch == LeavePatch(reqs[r].classDoc, reqs[r].data)
       IN IF classId \in DOMAIN classes
          THEN /\ classes' = [classes EXCEPT ![classId].members = patch.members,
                                             ![classId].spotsLeft = patch.spotsLeft]
               /\ reqs' = [reqs EXCEPT ![r].pc = "done", ![r].resp = RespLeft]
          ELSE /\ classes' = classes
               /\ reqs' = [reqs EXCEPT ![r].pc = "done",
                                       ![r].resp = ClassCatchResponse(ErrDocNotFound)]
    /\ UNCHANGED <<classTypes, avail>>

----------------------------------------------------------------------------
(* Specifications *)

NumReqs(ops) == Cardinality({r \in 1..Len(reqs) : reqs[r].op \in ops})

\* a createClass request arrives (ID.unique() has an identifier left to give)
CreateRequest ==
    /\ NumReqs({"createClass"}) < Cardinality(ClassIds)
    /\ \E ct \in ClassTypeIdInputs, d \in Days, t \in Times,
          ts \in TotalSpotsInputs, im \in SeedLists :
             createClassRead(ct, d, t, ts, im)

\* a joinClass or leaveClass request arrives
RosterRequest ==
    \/ \E c \in ClassIds, u \in Users, n \in Names : joinClassRead(c, u, n)
    \/ \E c \in ClassIds, u \in Users : leaveClassRead(c, u)

RosterOps == {"joinClass", "leaveClass"}

\* a suspended roster request resumes
RosterStep ==
    \E r \in 1..Len(reqs) :
       \/ createClassWrite(r)
       \/ joinClassWrite(r)
       \/ joinClassNotify(r)
       \/ leaveClassWrite(r)

\* concurrent, uncoordinated requests
Next ==
    \/ createClassType
    \/ CreateRequest
    \/ NumReqs(RosterOps) < MaxReq /\ RosterRequest
    \/ RosterStep

Spec == Init /\ [][Next]_vars

\* one request at a time: a request arrives only when none is in flight
NextSeq ==
    \/ createClassType
    \/ Idle /\ CreateRequest
    \/ NumReqs(RosterOps) < MaxSeqReq /\ Idle /\ RosterRequest
    \/ RosterStep

SpecSeq == Init /\ [][NextSeq]_vars

----------------------------------------------------------------------------
(* classManagement: updateClass, cancelClass, reactivateClass *)

RespUpdated(updatedClass) ==
    [status |-> 200, success |-> TRUE, class |-> updatedClass, action |-> "updateClass"]

RespCancelled(cancelledClass) ==
    [status |-> 200, success |-> TRUE, class |-> cancelledClass, action |-> "cancelClass"]

RespReactivated(reactivatedClass) ==
    [status |-> 200, success |-> TRUE, class |-> reactivatedClass,
     action |-> "reactivateClass"]

\* an update that also writes status 'active'
ApplyUpdateData_resetsStatus(classDoc, data, currentMembersCount) ==
    [classDoc EXCEPT
        !.day = IF data.day = << >> THEN @ ELSE data.day[1],
        !.time = IF data.time = << >> THEN @ ELSE data.time[1],
        !.classTypeId = IF data.classTypeId = << >> THEN @ ELSE data.classTypeId[1],
        !.totalSpots = IF data.totalSpots = << >> THEN @ ELSE data.totalSpots[1],
        !.spotsLeft = IF data.totalSpots = << >> THEN @
                      ELSE data.totalSpots[1] - currentMembersCount,
        !.status = "active"]

\* updateDocument(classes, classId, updateData): updateData holds day, time
\* and classTypeId when the payload gives them, and totalSpots with the
\* recalculated spotsLeft when the payload has totalSpots
ApplyUpdateData(classDoc, data, currentMembersCount) ==
    [classDoc EXCEPT
        !.day = IF data.day = << >> THEN @ ELSE data.day[1],
        !.time = IF data.time = << >> THEN @ ELSE data.time[1],
        !.classTypeId = IF data.classTypeId = << >> THEN @ ELSE data.classTypeId[1],
        !.totalSpots = IF data.totalSpots = << >> THEN @ ELSE data.totalSpots[1],
        !.spotsLeft = IF data.totalSpots = << >> THEN @
                      ELSE data.totalSpots[1] - currentMembersCount]

\* updateClass up to its first store call: getDocument(classes, classId) when
\* the payload has totalSpots, else updateDocument and the 200 response
updateClassRead(classId, day, time, classTypeId, totalSpots) ==
    LET data == [classId |-> classId, day |-> day, time |-> time,
                 classTypeId |-> classTypeId, totalSpots |-> totalSpots]
        req == NewReq("updateClass", data)
    IN IF classId \notin DOMAIN classes
       THEN /\ reqs' = Append(reqs,
                          [req EXCEPT !.resp = ClassCatchResponse(ErrDocNotFound)])
            /\ UNCHANGED <<classTypes, classes, avail>>
       ELSE IF totalSpots # << >>
       THEN /\ reqs' = Append(reqs, [req EXCEPT !.classDoc = classes[classId],
                                                !.pc = "updateDocument"])
            /\ UNCHANGED <<classTypes, classes, avail>>
       ELSE LET updatedClass == ApplyUpdateData(classes[classId], data, 0)
            IN /\ classes' = [classes EXCEPT ![classId] = updatedClass]
               /\ reqs' = Append(reqs, [req EXCEPT !.resp = RespUpdated(updatedClass)])
               /\ UNCHANGED <<classTypes, avail>>

\* updateDocument(classes, classId, updateData) with the spotsLeft computed
\* from the members read before, and the 200 response
updateClassWrite(r) ==
    /\ reqs[r].op = "updateClass" /\ reqs[r].pc = "updateDocument"
    /\ LET classId == reqs[r].data.classId
           currentClass == reqs[r].classDoc
           currentMembersCount == Len(currentClass.members)
       IN IF classId \in DOMAIN classes
          THEN LET updatedClass == ApplyUpdateData(classes[classId], reqs[r].data,
                                                   currentMembersCount)
               IN /\ classes' = [classes EXCEPT ![classId] = updatedClass]
                  /\ reqs' = [reqs EXCEPT ![r].pc = "done",
                                          ![r].resp = RespUpdated(updatedClass)]
          ELSE /\ classes' = classes
               /\ reqs' = [reqs EXCEPT ![r].pc = "done",
                                       ![r].resp = ClassCatchResponse(ErrDocNotFound)]
    /\ UNCHANGED <<classTypes, avail>>

NoReasonProvided == "No reason provided"

\* a cancelClass that leaves an already cancelled class as it is
cancelClass_keepsFirst(classId, reason) ==
    LET req == NewReq("cancelClass", [classId |-> classId, reason |-> reason])
        now == Len(reqs) + 1
    IN IF classId \notin DOMAIN classes
       THEN /\ reqs' = Append(reqs,
                          [req EXCEPT !.resp = ClassCatchResponse(ErrDocNotFound)])
            /\ UNCHANGED <<classTypes, classes, avail>>
       ELSE LET cancelledClass ==
                   IF classes[classId].status = "cancelled" THEN classes[classId]
                   ELSE [status |-> "cancelled", cancelledAt |-> now,
                         cancelReason |-> IF reason = << >> THEN NoReasonProvided
                                          ELSE reason[1]] @@ classes[classId]
            IN /\ classes' = [classes EXCEPT ![classId] = cancelledClass]
               /\ reqs' = Append(reqs, [req EXCEPT !.resp = RespCancelled(cancelledClass)])
               /\ UNCHANGED <<classTypes, avail>>

\* cancelClass: updateDocument(classes, classId, {status: 'cancelled',
\* cancelledAt, cancelReason: data.reason || 'No reason provided'})
cancelClass(classId, reason) ==
    LET req == NewReq("cancelClass", [classId |-> classId, reason |-> reason])
        now == Len(reqs) + 1
    IN IF classId \notin DOMAIN classes
       THEN /\ reqs' = Append(reqs,
                          [req EXCEPT !.resp = ClassCatchResponse(ErrDocNotFound)])
            /\ UNCHANGED <<classTypes, classes, avail>>
       ELSE LET cancelledClass ==
                   [status |-> "cancelled", cancelledAt |-> now,
                    cancelReason |-> IF reason = << >> THEN NoReasonProvided
                                     ELSE reason[1]] @@ classes[classId]
            IN /\ classes' = [classes EXCEPT ![classId] = cancelledClass]
               /\ reqs' = Append(reqs, [req EXCEPT !.resp = RespCancelled(cancelledClass)])
               /\ UNCHANGED <<classTypes, avail>>

\* reactivateClass: updateDocument(classes, classId, {status: 'active',
\* reactivatedAt})
reactivateClass(classId) ==
    LET req == NewReq("reactivateClass", [classId |-> classId])
        now == Len(reqs) + 1
    IN IF classId \notin DOMAIN classes
       THEN /\ reqs' = Append(reqs,
                          [req EXCEPT !.resp = ClassCatchResponse(ErrDocNotFound)])
            /\ UNCHANGED <<classTypes, classes, avail>>
       ELSE LET reactivatedClass ==
                   [status |-> "active", reactivatedAt |-> now] @@ classes[classId]
            IN /\ classes' = [classes EXCEPT ![classId] = reactivatedClass]
               /\ reqs' = Append(reqs,
                             [req EXCEPT !.resp = RespReactivated(reactivatedClass)])
               /\ UNCHANGED <<classTypes, avail>>

\* payloads of the runs with updateClass
AdminUsers == {"u1", "u2"}
AdminSeedLists ==
    {<< >>, <<JSONstringify([userId |-> "u1", name |-> "Alice", joinedAt |-> 0])>>}
UpdateInputs ==
    {[day |-> << >>, time |-> << >>, classTypeId |-> << >>, totalSpots |-> <<n>>] :
        n \in 0..MaxSpots}
    \cup {[day |-> <<"Tuesday">>, time |-> <<"7:00 PM">>, classTypeId |-> << >>,
           totalSpots |-> << >>],
          [day |-> << >>, time |-> << >>, classTypeId |-> <<"ct2">>,
           totalSpots |-> << >>]}
ReasonInputs == {<< >>, <<"rain">>}

AdminCreateRequest ==
    /\ NumReqs({"createClass"}) < Cardinality(ClassIds)
    /\ \E ct \in ClassTypeIds, d \in Days, t \in Times, im \in AdminSeedLists :
          createClassRead(<<ct>>, d, t, <<MaxSpots>>, im)

AdminOps == {"joinClass", "leaveClass", "updateClass", "cancelClass", "reactivateClass"}

AdminRequest ==
    \/ \E c \in ClassIds, u \in AdminUsers, n \in Names : joinClassRead(c, u, n)
    \/ \E c \in ClassIds, u \in AdminUsers : leaveClassRead(c, u)
    \/ \E c \in ClassIds, in \in UpdateInputs :
          updateClassRead(c, in.day, in.time, in.classTypeId, in.totalSpots)
    \/ \E c \in ClassIds, reason \in ReasonInputs : cancelClass(c, reason)
    \/ \E c \in ClassIds : reactivateClass(c)

AdminStep ==
    \E r \in 1..Len(reqs) :
       \/ createClassWrite(r)
       \/ joinClassWrite(r)
       \/ joinClassNotify(r)
       \/ leaveClassWrite(r)
       \/ updateClassWrite(r)

\* concurrent requests on a class, updateClass, cancelClass and
\* reactivateClass among them
NextAdmin ==
    \/ createClassType
    \/ AdminCreateRequest
    \/ NumReqs(AdminOps) < MaxAdminReq /\ AdminRequest
    \/ AdminStep

SpecAdmin == Init /\ [][NextAdmin]_vars

----------------------------------------------------------------------------
(* classManagement: deleteClassType, deleteClass *)

\* the message names the number of classes, written N here
RespTypeInUse ==
    [status |-> 400, success |-> FALSE,
     message |-> "Cannot delete class type. N classes are still using it.",
     action |-> "deleteClassType"]

RespTypeDeleted ==
    [status |-> 200, success |-> TRUE, message |-> "Class type deleted successfully",
     action |-> "deleteClassType"]

RespClassDeleted ==
    [status |-> 200, success |-> TRUE, message |-> "Class deleted successfully",
     action |-> "deleteClass"]

\* listDocuments(classes, [equal('classTypeId', classTypeId)]).total
classesUsingType(classTypeId) ==
    Cardinality({c \in DOMAIN classes : classes[c].classTypeId = classTypeId})

\* a deleteClassType that does not look for classes using the type
deleteClassTypeCheck_noUsageCheck(classTypeId) ==
    LET req == NewReq("deleteClassType", [classTypeId |-> classTypeId])
    IN /\ reqs' = Append(reqs, [req EXCEPT !.pc = "deleteDocument"])
       /\ UNCHANGED <<classTypes, classes, avail>>

\* deleteClassType up to the usage test
deleteClassTypeCheck(classTypeId) ==
    LET req == NewReq("deleteClassType", [classTypeId |-> classTypeId])
        total == classesUsingType(classTypeId)
    IN /\ reqs' = Append(reqs,
            IF total > 0
            THEN [req EXCEPT !.resp = RespTypeInUse]
            ELSE [req EXCEPT !.pc = "deleteDocument"])
       /\ UNCHANGED <<classTypes, classes, avail>>

\* deleteDocument(classTypes, classTypeId) and the 200 response
deleteClassTypeDelete(r) ==
    /\ reqs[r].op = "deleteClassType" /\ reqs[r].pc = "deleteDocument"
    /\ LET classTypeId == reqs[r].data.classTypeId
       IN IF classTypeId \in classTypes
          THEN /\ classTypes' = classTypes \ {classTypeId}
               /\ reqs' = [reqs EXCEPT ![r].pc = "done", ![r].resp = RespTypeDeleted]
          ELSE /\ classTypes' = classTypes
               /\ reqs' = [reqs EXCEPT ![r].pc = "done",
                                       ![r].resp = ClassCatchResponse(ErrDocNotFound)]
    /\ UNCHANGED <<classes, avail>>

\* a deleteClass that refuses a class that still has members
deleteClass_onlyEmpty(classId) ==
    LET req == NewReq("deleteClass", [classId |-> classId])
    IN IF classId \notin DOMAIN classes
       THEN /\ reqs' = Append(reqs,
                          [req EXCEPT !.resp = ClassCatchResponse(ErrDocNotFound)])
            /\ UNCHANGED <<classTypes, classes, avail>>
       ELSE IF classes[classId].members # << >>
       THEN /\ reqs' = Append(reqs, [req EXCEPT !.resp = RespTypeInUse])
            /\ UNCHANGED <<classTypes, classes, avail>>
       ELSE /\ classes' = [c \in DOMAIN classes \ {classId} |-> classes[c]]
            /\ reqs' = Append(reqs, [req EXCEPT !.resp = RespClassDeleted])
            /\ UNCHANGED <<classTypes, avail>>

\* deleteClass: deleteDocument(classes, classId) and the 200 response
deleteClass(classId) ==
    LET req == NewReq("deleteClass", [classId |-> classId])
    IN IF classId \notin DOMAIN classes
       THEN /\ reqs' = Append(reqs,
                          [req EXCEPT !.resp = ClassCatchResponse(ErrDocNotFound)])
            /\ UNCHANGED <<classTypes, classes, avail>>
       ELSE /\ classes' = [c \in DOMAIN classes \ {classId} |-> classes[c]]
            /\ reqs' = Append(reqs, [req EXCEPT !.resp = RespClassDeleted])
            /\ UNCHANGED <<classTypes, avail>>

\* payloads of the runs with deleteClassType
PatchClassTypeIds == ClassTypeIds \cup {"ct2"}

TypeCreateRequest ==
    /\ NumReqs({"createClass"}) < Cardinality(ClassIds)
    /\ \E ct \in ClassTypeIds, d \in Days, t \in Times :
          createClassRead(<<ct>>, d, t, << >>, << >>)

TypeOps == {"deleteClassType", "updateClass", "deleteClass"}

TypeRequest ==
    \/ \E ct \in ClassTypeIds : deleteClassTypeCheck(ct)
    \/ \E c \in ClassIds, ct \in PatchClassTypeIds :
          updateClassRead(c, << >>, << >>, <<ct>>, << >>)
    \/ \E c \in ClassIds : deleteClass(c)

TypeStep ==
    \E r \in 1..Len(reqs) :
       \/ createClassWrite(r)
       \/ deleteClassTypeDelete(r)

\* ID.unique() gives a class type a fresh identifier: none is created again
\* once a deleteClassType request has run
NextTypes ==
    \/ NumReqs({"deleteClassType"}) = 0 /\ createClassType
    \/ TypeCreateRequest
    \/ NumReqs(TypeOps) < MaxTypeReq /\ TypeRequest
    \/ TypeStep

SpecTypes == Init /\ [][NextTypes]_vars

----------------------------------------------------------------------------
(* classManagement: store calls that throw an error other than not-found  *)

ErrStore == "Server Error"

\* the first store call of a joinClass, leaveClass or updateClass request
\* throws: the catch handler answers
firstCallThrows(op, data) ==
    /\ reqs' = Append(reqs, [NewReq(op, data) EXCEPT
                                !.resp = ClassCatchResponse(ErrStore)])
    /\ UNCHANGED <<classTypes, classes, avail>>

\* the updateDocument a request is suspended on throws: the catch handler
\* answers
updateDocumentThrows(r) ==
    /\ reqs[r].op \in {"joinClass", "leaveClass", "updateClass"}
    /\ reqs[r].pc = "updateDocument"
    /\ reqs' = [reqs EXCEPT ![r].pc = "done",
                            ![r].resp = ClassCatchResponse(ErrStore)]
    /\ UNCHANGED <<classTypes, classes, avail>>

FailOps == {"joinClass", "leaveClass", "updateClass", "deleteClass"}

FailRequest ==
    \/ \E c \in ClassIds, u \in AdminUsers, n \in Names :
          \/ joinClassRead(c, u, n)
          \/ firstCallThrows("joinClass", [classId |-> c, userId |-> u, name |-> n])
    \/ \E c \in ClassIds, u \in AdminUsers :
          \/ leaveClassRead(c, u)
          \/ firstCallThrows("leaveClass", [classId |-> c, userId |-> u])
    \/ \E c \in ClassIds, in \in UpdateInputs :
          \/ updateClassRead(c, in.day, in.time, in.classTypeId, in.totalSpots)
          \/ firstCallThrows("updateClass",
                             [classId |-> c, day |-> in.day, time |-> in.time,
                              classTypeId |-> in.classTypeId,
                              totalSpots |-> in.totalSpots])
    \/ \E c \in ClassIds : deleteClass(c)

FailStep ==
    \E r \in 1..Len(reqs) :
       \/ createClassWrite(r)
       \/ joinClassWrite(r)
       \/ joinClassNotify(r)
       \/ leaveClassWrite(r)
       \/ updateClassWrite(r)
       \/ updateDocumentThrows(r)

\* concurrent requests on a class whose store calls may fail
NextFail ==
    \/ createClassType
    \/ AdminCreateRequest
    \/ NumReqs(FailOps) < MaxFailReq /\ FailRequest
    \/ FailStep

SpecFail == Init /\ [][NextFail]_vars

----------------------------------------------------------------------------
(* availabilityManagement.  A slot string is modelled as the sequence of   *)
(* its '-' separated segments, so that slot.split('-') is the sequence     *)
(* itself and `${day}-${time}` is the two-segment string <<day, time>>.    *)

Monday6PM == <<"Monday", "6:00 PM">>
Tuesday7PM == <<"Tuesday", "7:00 PM">>
MondayOnly == <<"Monday">>                       \* "Monday": no '-' in it
Monday6To7 == <<"Monday", "6:00 PM", "7:00 PM">> \* "Monday-6:00 PM-7:00 PM"

\* payloads of submitAvailability: classType and availabilities
SubmitInputs ==
    { [classType |-> "mandarin", availabilities |-> <<Monday6PM>>],
      [classType |-> "mandarin", availabilities |-> <<Tuesday7PM, Monday6PM>>],
      [classType |-> "yoga", availabilities |-> <<Monday6PM>>],
      [classType |-> "mandarin", availabilities |-> <<MondayOnly, Monday6To7>>] }

\* const [day, time] = slot.split('-'): a missing part is undefined, which
\* is falsy like the empty string
SplitDay(slot) == IF Len(slot) >= 1 THEN slot[1] ELSE ""
SplitTime(slot) == IF Len(slot) >= 2 THEN slot[2] ELSE ""

\* if (!day || !time) continue
InvalidSlot(slot) == SplitDay(slot) = "" \/ SplitTime(slot) = ""

\* `${day}-${time}`
TimeSlot(day, time) == <<day, time>>

\* doc.availabilities.includes(timeSlot)
Includes(availabilities, timeSlot) ==
    \E i \in 1..Len(availabilities) : availabilities[i] = timeSlot

\* a query without the status condition
MatchesDoc_anyStatus(doc, classType, timeSlot, excludeUserId) ==
    /\ doc.classType = classType
    /\ Includes(doc.availabilities, timeSlot)
    /\ doc.userId # excludeUserId

\* listDocuments([equal('classType', classType), equal('status', 'active')])
\* then filter(hasTimeSlot && isNotCurrentUser) and map to {userId, availabilityId}
MatchesDoc(doc, classType, timeSlot, excludeUserId) ==
    /\ doc.classType = classType
    /\ doc.status = "active"
    /\ Includes(doc.availabilities, timeSlot)
    /\ doc.userId # excludeUserId

RECURSIVE MatchesFrom(_, _, _, _, _)
MatchesFrom(docs, id, classType, timeSlot, excludeUserId) ==
    IF id > Len(docs) THEN << >>
    ELSE (IF MatchesDoc(docs[id], classType, timeSlot, excludeUserId)
          THEN << [userId |-> docs[id].userId, availabilityId |-> id] >>
          ELSE << >>)
         \o MatchesFrom(docs, id + 1, classType, timeSlot, excludeUserId)

findMatchingUsers(docs, classType, day, time, excludeUserId) ==
    MatchesFrom(docs, 1, classType, TimeSlot(day, time), excludeUserId)

\* the next slot at or after index i that passes the format test, or
\* Len + 1 when the loop of checkForMatches has run out of slots
RECURSIVE NextValidSlot(_, _)
NextValidSlot(availabilities, i) ==
    IF i > Len(availabilities) THEN i
    ELSE IF InvalidSlot(availabilities[i]) THEN NextValidSlot(availabilities, i + 1)
    ELSE i

RespSubmitted(availabilityId) ==
    [status |-> 200, success |-> TRUE, availabilityId |-> availabilityId,
     action |-> "submitAvailability"]

\* the request is left either suspended in findMatchingUsers on slot i or,
\* when no slot is left, answered
AfterSlot(req, i) ==
    LET next == NextValidSlot(req.data.availabilities, i)
    IN IF next > Len(req.data.availabilities)
       THEN [req EXCEPT !.pc = "done", !.slot = next,
                        !.resp = RespSubmitted(req.availabilityId)]
       ELSE [req EXCEPT !.pc = "listDocuments", !.slot = next]

\* a submitAvailability that archives the user's earlier documents for the
\* class type
submitAvailabilityCreate_supersedes(userId, classType, availabilities, checkFlag) ==
    LET data == [userId |-> userId, classType |-> classType,
                 availabilities |-> availabilities, checkForMatches |-> checkFlag]
        id == Len(avail) + 1
        req == [op |-> "submitAvailability", data |-> data, pc |-> "done",
                availabilityId |-> id, slot |-> 0, checks |-> << >>,
                resp |-> RespSubmitted(id)]
        superseded == [i \in 1..Len(avail) |->
                         IF avail[i].userId = userId /\ avail[i].classType = classType
                         THEN [avail[i] EXCEPT !.status = "archived"]
                         ELSE avail[i]]
    IN /\ avail' = Append(superseded, [userId |-> userId, classType |-> classType,
                                       availabilities |-> availabilities,
                                       status |-> "active", createdAt |-> id])
       /\ reqs' = Append(reqs, IF checkFlag THEN AfterSlot(req, 1) ELSE req)
       /\ UNCHANGED <<classTypes, classes>>

\* submitAvailability: createDocument(availability, ID.unique(), {...}), then
\* either the response or the entry into checkForMatches
submitAvailabilityCreate(userId, classType, availabilities, checkFlag) ==
    LET data == [userId |-> userId, classType |-> classType,
                 availabilities |-> availabilities, checkForMatches |-> checkFlag]
        id == Len(avail) + 1
        req == [op |-> "submitAvailability", data |-> data, pc |-> "done",
                availabilityId |-> id, slot |-> 0, checks |-> << >>,
                resp |-> RespSubmitted(id)]
    IN /\ avail' = Append(avail, [userId |-> userId, classType |-> classType,
                                  availabilities |-> availabilities,
                                  status |-> "active", createdAt |-> id])
       /\ reqs' = Append(reqs, IF checkFlag THEN AfterSlot(req, 1) ELSE req)
       /\ UNCHANGED <<classTypes, classes>>

MinMatches == 2

\* if (matches.length >= 2) { log("Would create class ...") }
EnoughMatches(matches) == Len(matches) >= MinMatches

\* one round of the loop of checkForMatches: findMatchingUsers for the slot
\* the request is suspended on, the decision, and the move to the next slot
checkForMatchesSlot(r) ==
    /\ reqs[r].op = "submitAvailability" /\ reqs[r].pc = "listDocuments"
    /\ LET req == reqs[r]
           slot == req.data.availabilities[req.slot]
           day == SplitDay(slot)
           time == SplitTime(slot)
           matches == findMatchingUsers(avail, req.data.classType, day, time,
                                        req.data.userId)
           entry == [day |-> day, time |-> time, matches |-> matches,
                     wouldCreateClass |-> EnoughMatches(matches)]
       IN reqs' = [reqs EXCEPT ![r] =
                      AfterSlot([req EXCEPT !.checks = Append(req.checks, entry)],
                                req.slot + 1)]
    /\ UNCHANGED <<classTypes, classes, avail>>

SubmitRequest ==
    \E u \in Users, in \in SubmitInputs, flag \in BOOLEAN :
       submitAvailabilityCreate(u, in.classType, in.availabilities, flag)

\* one submission at a time
NextAvail ==
    \/ NumReqs({"submitAvailability"}) < MaxSubmit /\ Idle /\ SubmitRequest
    \/ \E r \in 1..Len(reqs) : checkForMatchesSlot(r)

SpecAvail == Init /\ [][NextAvail]_vars

\* concurrent submissions
NextAvailConc ==
    \/ NumReqs({"submitAvailability"}) < MaxConcSubmit /\ SubmitRequest
    \/ \E r \in 1..Len(reqs) : checkForMatchesSlot(r)

SpecAvailConc == Init /\ [][NextAvailConc]_vars

(* The findMatches action of availabilityManagement *)

\* data.excludeUserId of a payload without the field: no userId equals it
Undefined == "undefined"

FindClassTypes == {"mandarin", "yoga"}
ExcludeInputs == {<< >>} \cup {<<u>> : u \in Users}

\* a handler that does not pass data.excludeUserId on
findMatches_noExclude(classType, day, time, excludeUserId) ==
    LET data == [classType |-> classType, day |-> day, time |-> time,
                 excludeUserId |-> excludeUserId]
        matches == findMatchingUsers(avail, classType, day, time, Undefined)
    IN /\ reqs' = Append(reqs, [op |-> "findMatches", data |-> data, pc |-> "done",
                                resp |-> [status |-> 200, success |-> TRUE,
                                          matches |-> matches,
                                          action |-> "findMatches"]])
       /\ UNCHANGED <<classTypes, classes, avail>>

\* case 'findMatches': findMatchingUsers(data.classType, data.day, data.time,
\* data.excludeUserId), answered with the matches
findMatches(classType, day, time, excludeUserId) ==
    LET data == [classType |-> classType, day |-> day, time |-> time,
                 excludeUserId |-> excludeUserId]
        excluded == IF excludeUserId = << >> THEN Undefined ELSE excludeUserId[1]
        matches == findMatchingUsers(avail, classType, day, time, excluded)
    IN /\ reqs' = Append(reqs, [op |-> "findMatches", data |-> data, pc |-> "done",
                                resp |-> [status |-> 200, success |-> TRUE,
                                          matches |-> matches,
                                          action |-> "findMatches"]])
       /\ UNCHANGED <<classTypes, classes, avail>>

\* case 'cleanupDatabase' ("Archive old records"): the status transition of
\* an availability document to Archived
cleanupOldRecords(id) ==
    /\ id \in 1..Len(avail)
    /\ avail[id].status = "active"
    /\ avail' = [avail EXCEPT ![id].status = "archived"]
    /\ UNCHANGED <<classTypes, classes, reqs>>

FindRequest ==
    \E classType \in FindClassTypes, day \in Days, time \in Times,
       excludeUserId \in ExcludeInputs :
          findMatches(classType, day, time, excludeUserId)

\* findMatches writes nothing, so every store content it can read is covered
\* by runs in which the findMatches requests follow the writes
NextFind ==
    \/ /\ NumReqs({"findMatches"}) = 0
       /\ NumReqs({"submitAvailability"}) < MaxConcSubmit
       /\ \E u \in Users, in \in SubmitInputs :
             submitAvailabilityCreate(u, in.classType, in.availabilities, FALSE)
    \/ /\ NumReqs({"findMatches"}) = 0
       /\ \E id \in 1..Len(avail) : cleanupOldRecords(id)
    \/ NumReqs({"findMatches"}) < MaxFind /\ FindRequest

SpecFind == Init /\ [][NextFind]_vars

(* Requests whose action the handler does not dispatch on *)

\* the cases of the switch of classManagement and of availabilityManagement
ClassManagementActions ==
    {"getAvailableClasses", "getAllClasses", "getClassStats", "getClassDetails",
     "joinClass", "leaveClass", "updateClass", "cancelClass", "reactivateClass",
     "deleteClass", "createClass", "getClassTypes", "getAllClassTypes",
     "createClassType", "updateClassType", "deleteClassType"}
AvailabilityActions == {"submitAvailability", "findMatches", "getUserAvailability"}

RespNoAction ==
    [status |-> 400, success |-> FALSE,
     message |-> "Invalid action: No action specified.", action |-> "unknown"]

RespInvalidAction(action) ==
    [status |-> 400, success |-> FALSE, message |-> "Invalid action specified",
     action |-> action]

\* a default case that throws, answered by the catch handler
invalidAction_throws(fn, action) ==
    /\ IF action = << >> THEN TRUE
       ELSE action[1] \notin (IF fn = "classManagement" THEN ClassManagementActions
                              ELSE AvailabilityActions)
    /\ reqs' = Append(reqs,
          [NewReq(IF action = << >> THEN "unknown" ELSE action[1],
                  [function |-> fn, action |-> action])
             EXCEPT !.resp = IF action = << >> THEN RespNoAction
                             ELSE ClassCatchResponse("Invalid action specified")])
    /\ UNCHANGED <<classTypes, classes, avail>>

\* if (!action) of either handler, and the default case of its switch
invalidAction(fn, action) ==
    /\ IF action = << >> THEN TRUE
       ELSE action[1] \notin (IF fn = "classManagement" THEN ClassManagementActions
                              ELSE AvailabilityActions)
    /\ reqs' = Append(reqs,
          [NewReq(IF action = << >> THEN "unknown" ELSE action[1],
                  [function |-> fn, action |-> action])
             EXCEPT !.resp = IF action = << >> THEN RespNoAction
                             ELSE RespInvalidAction(action[1])])
    /\ UNCHANGED <<classTypes, classes, avail>>

Functions == {"classManagement", "availabilityManagement"}
ActionInputs == {<< >>, <<"enrollClass">>, <<"joinClass">>}

BadRequest ==
    \E fn \in Functions, action \in ActionInputs : invalidAction(fn, action)

\* requests without a known action, arriving while a class is created
NextDispatch ==
    \/ createClassType
    \/ AdminCreateRequest
    \/ \E r \in 1..Len(reqs) : createClassWrite(r)
    \/ /\ Cardinality({r \in 1..Len(reqs) : "function" \in DOMAIN reqs[r].data})
             < MaxBadReq
       /\ BadRequest

SpecDispatch == Init /\ [][NextDispatch]_vars


(* checkForMatches when the store fails while a slot is being checked *)

\* catch (e) of the availabilityManagement handler
AvailCatchResponse(e) ==
    [status |-> 500, success |-> FALSE,
     message |-> <<"Availability operation failed: ", e>>, errorDetails |-> e]

\* a checkForMatches without the try/catch around the check of a slot
findMatchingUsersThrows_uncaught(r) ==
    /\ reqs[r].op = "submitAvailability" /\ reqs[r].pc = "listDocuments"
    /\ reqs' = [reqs EXCEPT ![r].pc = "done",
                            ![r].resp = AvailCatchResponse(ErrStore)]
    /\ UNCHANGED <<classTypes, classes, avail>>

\* one round of the loop of checkForMatches in which listDocuments of
\* findMatchingUsers throws: catch (error) logs it and the loop goes on
findMatchingUsersThrows(r) ==
    /\ reqs[r].op = "submitAvailability" /\ reqs[r].pc = "listDocuments"
    /\ LET req == reqs[r]
           slot == req.data.availabilities[req.slot]
           entry == [day |-> SplitDay(slot), time |-> SplitTime(slot),
                     matches |-> << >>, wouldCreateClass |-> FALSE,
                     error |-> ErrStore]
       IN reqs' = [reqs EXCEPT ![r] =
                      AfterSlot([req EXCEPT !.checks = Append(req.checks, entry)],
                                req.slot + 1)]
    /\ UNCHANGED <<classTypes, classes, avail>>

\* one submission at a time, each slot check either answered or failing
NextAvailFail ==
    \/ NumReqs({"submitAvailability"}) < MaxFailSubmit /\ Idle /\ SubmitRequest
    \/ \E r \in 1..Len(reqs) : checkForMatchesSlot(r)
    \/ \E r \in 1..Len(reqs) : findMatchingUsersThrows(r)

SpecAvailFail == Init /\ [][NextAvailFail]_vars


(* notifications: the newMatch action *)

NotifyUsers == {"u1", "u2"}

\* data.userIds: the lists of at most MaxUserIds user ids, repetitions included
UserIdLists ==
    UNION { [1..n -> NotifyUsers] : n \in 0..MaxUserIds }

\* what the calls made for one user can do: users.get or users.getPrefs
\* throws, the user has no email, the mail is sent, or Mailgun throws
NotifyOutcomes == {"sent", "noEmail", "getThrows", "getPrefsThrows", "mailThrows"}

\* results.push({userId, status: 'success', methods}) in the try block,
\* results.push({userId, status: 'error', error}) in the catch
NotifyResult(userId, outcome) ==
    CASE outcome = "sent" ->
            [userId |-> userId, status |-> "success", methods |-> <<"email">>]
      [] outcome = "noEmail" ->
            [userId |-> userId, status |-> "success", methods |-> << >>]
      [] OTHER ->
            [userId |-> userId, status |-> "error", error |-> outcome]

RespNewMatch(results) ==
    [status |-> 200, success |-> TRUE, notificationResults |-> results,
     action |-> "newMatch"]

\* the request is left either suspended in users.get for userIds[i] or,
\* when the loop has run out of users, answered with the results
AfterUser(req, i) ==
    IF i > Len(req.data.userIds)
    THEN [req EXCEPT !.pc = "done", !.user = i, !.resp = RespNewMatch(req.results)]
    ELSE [req EXCEPT !.pc = "users.get", !.user = i]

\* case 'newMatch': the entry into notifyUsers
newMatch(userIds) ==
    /\ reqs' = Append(reqs, AfterUser([op |-> "newMatch",
                                       data |-> [userIds |-> userIds],
                                       pc |-> "done", user |-> 0,
                                       results |-> << >>, resp |-> NoResp], 1))
    /\ UNCHANGED <<classTypes, classes, avail>>

\* a notifyUsers whose loop ends at the first user that cannot be notified
notifyUser_stopsAtError(r) ==
    /\ reqs[r].op = "newMatch" /\ reqs[r].pc = "users.get"
    /\ \E outcome \in NotifyOutcomes :
          LET req == reqs[r]
              result == NotifyResult(req.data.userIds[req.user], outcome)
              pushed == [req EXCEPT !.results = Append(req.results, result)]
          IN reqs' = [reqs EXCEPT ![r] =
                         IF result.status = "error"
                         THEN AfterUser(pushed, Len(req.data.userIds) + 1)
                         ELSE AfterUser(pushed, req.user + 1)]
    /\ UNCHANGED <<classTypes, classes, avail>>

\* one round of the loop of notifyUsers: the lookups and the mail for one
\* user, the result pushed, and the move to the next user
notifyUser(r) ==
    /\ reqs[r].op = "newMatch" /\ reqs[r].pc = "users.get"
    /\ \E outcome \in NotifyOutcomes :
          LET req == reqs[r]
              result == NotifyResult(req.data.userIds[req.user], outcome)
              pushed == [req EXCEPT !.results = Append(req.results, result)]
          IN reqs' = [reqs EXCEPT ![r] = AfterUser(pushed, req.user + 1)]
    /\ UNCHANGED <<classTypes, classes, avail>>

NextNotify ==
    \/ NumReqs({"newMatch"}) < MaxNotifyReq /\ (\E ids \in UserIdLists : newMatch(ids))
    \/ \E r \in 1..Len(reqs) : notifyUser(r)

SpecNotify == Init /\ [][NextNotify]_vars


(* classManagement: getAllClasses.  createClassType is always called with  *)
(* the name 'Mandarin Beginner' and the category 'mandarin,beginner', and   *)
(* stores isActive: true; no modelled action changes a class type.  The    *)
(* payloads leave limit and offset out: the defaults (25, 0) return every  *)
(* document of the modelled store.  A listing is the function from the     *)
(* ids of the listed documents to the documents.                           *)

ClassTypeDoc ==
    [name |-> "Mandarin Beginner", category |-> "mandarin,beginner",
     isActive |-> TRUE]

UnknownClassType == "Unknown Class Type"

\* classDoc.totalSpots || 0
TotalSpotsOrZero(classDoc) ==
    IF "totalSpots" \in DOMAIN classDoc THEN classDoc.totalSpots ELSE 0

\* a rounding towards zero
Math_round_down(num, den) == num \div den

\* Math.round(num / den) for num >= 0 and den > 0: the nearest integer, the
\* upper one on a tie
Math_round(num, den) == (2 * num + den) \div (2 * den)

\* the object getAllClasses returns for one listed document
ClassWithStats(classDoc, classTypeName) ==
    LET totalSpots == TotalSpotsOrZero(classDoc)
        currentMembers == Len(classDoc.members)
        spotsLeft == totalSpots - currentMembers
        fillRate == IF totalSpots > 0 THEN Math_round(100 * currentMembers, totalSpots)
                    ELSE 0
    IN [currentMembers |-> currentMembers, spotsLeft |-> spotsLeft,
        fillRate |-> fillRate, classTypeName |-> classTypeName] @@ classDoc

RespAllClasses(classesWithStats) ==
    [status |-> 200, success |-> TRUE, classes |-> classesWithStats,
     total |-> Cardinality(DOMAIN classesWithStats), action |-> "getAllClasses"]

\* listDocuments(classTypes, [equal('category', data.classType)])
classTypesOfCategory(category) ==
    {ct \in classTypes : ClassTypeDoc.category = category}

\* listDocuments(classes, queries): typeIds is << >> when no classTypeId
\* query was pushed, status is << >> when no status query was pushed
listClasses(typeIds, status) ==
    LET ids == {c \in DOMAIN classes :
                  /\ typeIds = << >> \/ classes[c].classTypeId \in typeIds[1]
                  /\ status = << >> \/ classes[c].status = status[1]}
    IN [c \in ids |-> classes[c]]

\* the request holds the listing and is left either suspended in the
\* getDocument calls of Promise.all or, when nothing is listed, answered
AfterListAll(req, listed) ==
    IF DOMAIN listed = {}
    THEN [req EXCEPT !.listed = listed, !.pc = "done", !.resp = RespAllClasses(listed)]
    ELSE [req EXCEPT !.listed = listed, !.pc = "getDocument"]

\* if (data.status && data.status !== 'all') queries.push(equal('status', ...))
StatusQuery(status) ==
    IF status = << >> THEN << >> ELSE IF status[1] = "all" THEN << >> ELSE status

\* getAllClasses up to its first store call: listDocuments(classTypes) when
\* a classType other than 'all' is given, else listDocuments(classes)
getAllClasses(classType, status) ==
    LET req == [op |-> "getAllClasses",
                data |-> [classType |-> classType, status |-> status],
                pc |-> "done", typeIds |-> << >>, listed |-> << >>,
                resp |-> NoResp]
    IN /\ reqs' = Append(reqs,
                     IF classType # << >> /\ classType # <<"all">>
                     THEN LET matchingClassTypes == classTypesOfCategory(classType[1])
                          IN [req EXCEPT !.pc = "listDocuments",
                                         !.typeIds = IF matchingClassTypes = {} THEN << >>
                                                     ELSE <<matchingClassTypes>>]
                     ELSE AfterListAll(req, listClasses(<< >>, StatusQuery(status))))
       /\ UNCHANGED <<classTypes, classes, avail>>

\* listDocuments(classes, queries) after the class types were listed
getAllClassesList(r) ==
    /\ reqs[r].op = "getAllClasses" /\ reqs[r].pc = "listDocuments"
    /\ reqs' = [reqs EXCEPT ![r] =
                   AfterListAll(reqs[r], listClasses(reqs[r].typeIds,
                                                     StatusQuery(reqs[r].data.status)))]
    /\ UNCHANGED <<classTypes, classes, avail>>

\* the getDocument(classTypes, classDoc.classTypeId) of each listed document,
\* its catch, and the 200 response
getAllClassesStats(r) ==
    /\ reqs[r].op = "getAllClasses" /\ reqs[r].pc = "getDocument"
    /\ LET listed == reqs[r].listed
           classesWithStats ==
              [c \in DOMAIN listed |->
                 ClassWithStats(listed[c],
                                IF listed[c].classTypeId \in classTypes
                                THEN ClassTypeDoc.name ELSE UnknownClassType)]
       IN reqs' = [reqs EXCEPT ![r].pc = "done",
                               ![r].resp = RespAllClasses(classesWithStats)]
    /\ UNCHANGED <<classTypes, classes, avail>>

\* totalSpots of the createClass payloads: omitted, 3 and 8, so that fill
\* rates that are no integers occur
StatsSpotsInputs == {<< >>, <<3>>, <<8>>}

\* initialMembers of the createClass payloads: up to MaxSeed member strings
StatsSeedLists ==
    {[i \in 1..n |-> JSONstringify([userId |-> "u1", name |-> "Alice", joinedAt |-> 0])] :
        n \in 0..MaxSeed}

StatsCreateRequest ==
    /\ NumReqs({"createClass"}) < Cardinality(ClassIds)
    /\ \E ct \in ClassTypeIds, d \in Days, t \in Times,
          ts \in StatsSpotsInputs, im \in StatsSeedLists :
          createClassRead(<<ct>>, d, t, ts, im)

StatsClassTypeInputs == {<< >>, <<"mandarin">>, <<"mandarin,beginner">>}
StatsStatusInputs == {<< >>, <<"active">>}

StatsOps == {"updateClass", "getAllClasses"}

StatsRequest ==
    \/ \E c \in ClassIds : updateClassRead(c, << >>, << >>, << >>, <<0>>)
    \/ \E classType \in StatsClassTypeInputs, status \in StatsStatusInputs :
          getAllClasses(classType, status)

StatsStep ==
    \E r \in 1..Len(reqs) :
       \/ createClassWrite(r)
       \/ updateClassWrite(r)
       \/ getAllClassesList(r)
       \/ getAllClassesStats(r)

\* listings of a class whose totalSpots an updateClass may set to 0, one
\* request at a time
NextStats ==
    \/ createClassType
    \/ Idle /\ StatsCreateRequest
    \/ NumReqs(StatsOps) < MaxStatsReq /\ Idle /\ StatsRequest
    \/ StatsStep

SpecStats == Init /\ [][NextStats]_vars


(* classManagement: getAvailableClasses *)

\* (ct.category || '').split(',').map(cat => cat.trim()), for the category
\* strings of the model
Categories(category) ==
    IF category = "mandarin,beginner" THEN {"mandarin", "beginner"} ELSE {category}

\* listDocuments(classTypes, [equal('isActive', true)]) and the filter on
\* categories.includes(data.classType)
matchingClassTypes(classType) ==
    {ct \in classTypes : ClassTypeDoc.isActive /\ classType \in Categories(ClassTypeDoc.category)}

\* a listing whose query has no status condition
availableClasses_anyStatus(typeIds) ==
    listClasses(typeIds, << >>)

\* listDocuments(classes, classesQuery): classesQuery always holds
\* equal('status', 'active')
availableClasses(typeIds) ==
    listClasses(typeIds, <<"active">>)

RespAvailableClasses(enrichedClasses) ==
    [status |-> 200, success |-> TRUE, classes |-> enrichedClasses,
     action |-> "getAvailableClasses"]

\* the request holds the listing and is left either suspended in the
\* getDocument calls of Promise.all or, when nothing is listed, answered
AfterListAvailable(req, listed) ==
    IF DOMAIN listed = {}
    THEN [req EXCEPT !.listed = listed, !.pc = "done",
                     !.resp = RespAvailableClasses(listed)]
    ELSE [req EXCEPT !.listed = listed, !.pc = "getDocument"]

\* getAvailableClasses up to its first store call: listDocuments(classTypes)
\* when a classType other than 'all' is given (and the empty response when
\* no class type has the category), else listDocuments(classes)
getAvailableClasses(classType) ==
    LET req == [op |-> "getAvailableClasses", data |-> [classType |-> classType],
                pc |-> "done", typeIds |-> << >>, listed |-> << >>,
                resp |-> NoResp]
    IN /\ reqs' = Append(reqs,
                     IF classType # << >> /\ classType # <<"all">>
                     THEN LET matching == matchingClassTypes(classType[1])
                          IN IF matching = {}
                             THEN [req EXCEPT !.resp = RespAvailableClasses(<< >>)]
                             ELSE [req EXCEPT !.pc = "listDocuments",
                                              !.typeIds = <<matching>>]
                     ELSE AfterListAvailable(req, availableClasses(<< >>)))
       /\ UNCHANGED <<classTypes, classes, avail>>

\* listDocuments(classes, classesQuery) after the class types were listed
getAvailableClassesList(r) ==
    /\ reqs[r].op = "getAvailableClasses" /\ reqs[r].pc = "listDocuments"
    /\ reqs' = [reqs EXCEPT ![r] =
                   AfterListAvailable(reqs[r], availableClasses(reqs[r].typeIds))]
    /\ UNCHANGED <<classTypes, classes, avail>>

\* the object getAvailableClasses returns for one listed document
EnrichedClass(classDoc) ==
    IF classDoc.classTypeId \in classTypes
    THEN [classTypeName |-> ClassTypeDoc.name,
          classTypeCategory |-> ClassTypeDoc.category,
          type |-> ClassTypeDoc.category] @@ classDoc
    ELSE [classTypeName |-> UnknownClassType, classTypeCategory |-> "general",
          type |-> "general"] @@ classDoc

\* the getDocument(classTypes, classDoc.classTypeId) of each listed document,
\* its catch, and the 200 response
getAvailableClassesEnrich(r) ==
    /\ reqs[r].op = "getAvailableClasses" /\ reqs[r].pc = "getDocument"
    /\ LET listed == reqs[r].listed
           enrichedClasses == [c \in DOMAIN listed |-> EnrichedClass(listed[c])]
       IN reqs' = [reqs EXCEPT ![r].pc = "done",
                               ![r].resp = RespAvailableClasses(enrichedClasses)]
    /\ UNCHANGED <<classTypes, classes, avail>>

AvailableClassTypeInputs == {<< >>, <<"all">>, <<"mandarin">>, <<"yoga">>}

LifeOps == {"cancelClass", "reactivateClass", "deleteClass", "getAvailableClasses"}

LifeRequest ==
    \/ \E c \in ClassIds : cancelClass(c, <<"rain">>)
    \/ \E c \in ClassIds : reactivateClass(c)
    \/ \E c \in ClassIds : deleteClass(c)
    \/ Idle /\ \E classType \in AvailableClassTypeInputs : getAvailableClasses(classType)

\* the createClass request of the run has returned
Created == \E r \in 1..Len(reqs) : reqs[r].op = "createClass" /\ reqs[r].pc = "done"

LifeStep ==
    \E r \in 1..Len(reqs) :
       \/ createClassWrite(r)
       \/ getAvailableClassesList(r)
       \/ getAvailableClassesEnrich(r)

\* the life of a class after its creation up to its deletion, with one
\* listing at a time and at most one availability document in the store
NextLife ==
    \/ createClassType
    \/ AdminCreateRequest
    \/ reqs = << >> /\ submitAvailabilityCreate("u1", "mandarin", <<Monday6PM>>, FALSE)
    \/ NumReqs(LifeOps) < MaxLifeReq /\ Created /\ LifeRequest
    \/ LifeStep

SpecLife == Init /\ [][NextLife]_vars


TypeOK ==
    /\ classTypes \subseteq ClassTypeIds
    /\ DOMAIN classes \subseteq ClassIds
    /\ Len(reqs) <= MaxSeqReq + MaxReq + MaxSubmit + MaxConcSubmit + 1

----------------------------------------------------------------------------
(* Observations on the store and on the request history *)

\* number of member strings of one user in a members array
EntriesOf(members, userId) ==
    Cardinality({i \in 1..Len(members) : IsMemberString(members[i], userId)})

Capacity(classDoc) ==
    /\ Len(classDoc.members) <= classDoc.totalSpots
    /\ classDoc.spotsLeft = classDoc.totalSpots - Len(classDoc.members)

IsReq(r, op) == r \in 1..Len(reqs) /\ reqs[r].op = op

Done(r) == reqs[r].pc = "done"

\* the request read an existing class document
ReadClass(r) == reqs[r].classDoc # NoDoc

\* C1: whatever the interleaving of joinClass and leaveClass requests, every
\* stored class has |members| <= totalSpots and
\* spotsLeft = totalSpots - |members|.
C1_CapacityInvariant ==
    \A c \in DOMAIN classes : Capacity(classes[c])

\* C2: two joinClass requests of different users that both read the class
\* with spotsLeft = 1 end in exactly one success and one failure.
C2_ExactlyOneJoins ==
    \A r1, r2 \in 1..Len(reqs) :
        ( /\ r1 < r2
          /\ IsReq(r1, "joinClass") /\ IsReq(r2, "joinClass")
          /\ reqs[r1].data.classId = reqs[r2].data.classId
          /\ reqs[r1].data.userId # reqs[r2].data.userId
          /\ ReadClass(r1) /\ reqs[r1].classDoc = reqs[r2].classDoc
          /\ reqs[r1].classDoc.spotsLeft = 1
          /\ Done(r1) /\ Done(r2) )
        => (reqs[r1].resp.success # reqs[r2].resp.success)

\* C3: once every request has completed, the user of each successful
\* joinClass is in the stored members, unless a leaveClass of that user
\* issued later succeeded.
C3_NoLostJoin ==
    Idle =>
      \A r \in 1..Len(reqs) :
        ( /\ IsReq(r, "joinClass") /\ reqs[r].resp = RespJoined
          /\ reqs[r].data.classId \in DOMAIN classes
          /\ ~ \E l \in (r+1)..Len(reqs) :
                 /\ IsReq(l, "leaveClass") /\ reqs[l].resp = RespLeft
                 /\ reqs[l].data = [classId |-> reqs[r].data.classId,
                                    userId |-> reqs[r].data.userId] )
        => userAlreadyJoined(classes[reqs[r].data.classId].members,
                             reqs[r].data.userId)

\* the last two requests are joinClass calls of one user on one existing class,
\* made one after the other, and both have returned
TwoJoinsInSequence ==
    /\ Len(reqs) >= 2
    /\ Idle
    /\ IsReq(Len(reqs) - 1, "joinClass") /\ IsReq(Len(reqs), "joinClass")
    /\ reqs[Len(reqs) - 1].data = reqs[Len(reqs)].data
    /\ ReadClass(Len(reqs) - 1)

\* C4 (as stated): after two joinClass calls in sequence for the same
\* (classId, userId) there is exactly one Member entry of that userId and
\* the second call has returned AlreadyJoined, whatever totalSpots is.
C4_SecondJoinAlreadyJoined ==
    TwoJoinsInSequence =>
        LET second == reqs[Len(reqs)]
        IN /\ EntriesOf(classes[second.data.classId].members, second.data.userId) = 1
           /\ second.resp = RespAlreadyJoined

\* C4 (amended): when the first of two joinClass calls in sequence for the
\* same (classId, userId) succeeds, exactly one Member entry of that userId
\* is left; the second call returns AlreadyJoined if the class still has a
\* free spot after the first call and Full if the first call took the last
\* spot.
C4_SecondJoinRejected ==
    (TwoJoinsInSequence /\ reqs[Len(reqs) - 1].resp = RespJoined) =>
        LET second == reqs[Len(reqs)]
            classDoc == classes[second.data.classId]
        IN /\ EntriesOf(classDoc.members, second.data.userId) = 1
           /\ second.resp = IF Len(classDoc.members) < classDoc.totalSpots
                            THEN RespAlreadyJoined
                            ELSE RespFull
           /\ classDoc = second.classDoc

C4_Witness ==
    /\ TwoJoinsInSequence
    /\ reqs[Len(reqs) - 1].resp = RespJoined
    /\ reqs[Len(reqs)].resp = RespAlreadyJoined

\* C5: in every stored class each userId has at most one Member entry.
C5_NoDuplicateMember ==
    \A c \in DOMAIN classes : \A u \in Users :
        EntriesOf(classes[c].members, u) <= 1

\* the step is the arrival of a request of the given operation
Arrives(op) == Len(reqs') = Len(reqs) + 1 /\ reqs'[Len(reqs')].op = op

\* C6: joinClass tests, in this order, that the class exists (else the
\* not-found failure), that |members| < totalSpots (else Full) and that the
\* userId is not in members (else AlreadyJoined); a request that fails one
\* of them writes nothing.
C6_JoinCheckOrder ==
    [][ Arrives("joinClass") =>
          LET req == reqs'[Len(reqs')]
              c == req.data.classId
          IN IF c \notin DOMAIN classes
             THEN /\ ~ req.resp.success
                  /\ req.resp.errorDetails = ErrDocNotFound
                  /\ req.pc = "done" /\ classes' = classes
             ELSE IF Len(classes[c].members) >= classes[c].totalSpots
             THEN req.resp = RespFull /\ req.pc = "done" /\ classes' = classes
             ELSE IF userAlreadyJoined(classes[c].members, req.data.userId)
             THEN req.resp = RespAlreadyJoined /\ req.pc = "done" /\ classes' = classes
             ELSE req.pc = "updateDocument" /\ req.resp = NoResp ]_vars

\* a full class rejected a user who is already a member with Full
C6_Witness ==
    \E r \in 1..Len(reqs) :
        /\ IsReq(r, "joinClass") /\ reqs[r].resp = RespFull
        /\ userAlreadyJoined(reqs[r].classDoc.members, reqs[r].data.userId)

\* C7: leaveClass of a userId that is not in the members of the class
\* returns NotEnrolled and leaves the class document as it is.
C7_LeaveNotEnrolled ==
    [][ ( /\ Arrives("leaveClass")
          /\ reqs'[Len(reqs')].data.classId \in DOMAIN classes
          /\ ~ userAlreadyJoined(classes[reqs'[Len(reqs')].data.classId].members,
                                 reqs'[Len(reqs')].data.userId) )
        => /\ reqs'[Len(reqs')].resp = RespNotEnrolled
           /\ reqs'[Len(reqs')].pc = "done"
           /\ classes' = classes ]_vars

\* a user who is not a member tried to leave a class that has members
C7_Witness ==
    \E r \in 1..Len(reqs) :
        /\ IsReq(r, "leaveClass") /\ reqs[r].resp = RespNotEnrolled
        /\ reqs[r].classDoc.members # << >>

\* C8: once every request has completed, the user of each successful
\* leaveClass is absent from the stored members, unless a joinClass of that
\* user was issued later.
C8_NoLostLeave ==
    Idle =>
      \A r \in 1..Len(reqs) :
        ( /\ IsReq(r, "leaveClass") /\ reqs[r].resp = RespLeft
          /\ reqs[r].data.classId \in DOMAIN classes
          /\ ~ \E j \in (r+1)..Len(reqs) :
                 /\ IsReq(j, "joinClass")
                 /\ reqs[j].data.classId = reqs[r].data.classId
                 /\ reqs[j].data.userId = reqs[r].data.userId )
        => ~ userAlreadyJoined(classes[reqs[r].data.classId].members,
                               reqs[r].data.userId)

\* requests i..i+k are: a successful createClass with totalSpots = 2 and no
\* initial members, then joinClass calls on that class by distinct users
ScenarioAt(i, k) ==
    /\ i + k <= Len(reqs)
    /\ IsReq(i, "createClass") /\ reqs[i].resp.status = 201
    /\ reqs[i].data.totalSpots = <<2>> /\ reqs[i].data.initialMembers = << >>
    /\ \A j \in (i+1)..(i+k) :
          /\ IsReq(j, "joinClass") /\ Done(j)
          /\ reqs[j].data.classId = reqs[i].resp.classId
    /\ \A j1, j2 \in (i+1)..(i+k) :
          j1 # j2 => reqs[j1].data.userId # reqs[j2].data.userId

\* C9: createClass with totalSpots = 2 and no initial members stores
\* spotsLeft = 2; of three joinClass calls in sequence by distinct users the
\* first succeeds and leaves spotsLeft = 1, the second succeeds and leaves
\* spotsLeft = 0, the third returns Full and leaves the class unchanged.
C9_ScenarioTwoSpots ==
    \A i \in 1..Len(reqs) :
        LET stored == classes[reqs[i].resp.classId]
            last(k) == Len(reqs) = i + k
        IN /\ (ScenarioAt(i, 0) /\ last(0)) => stored.spotsLeft = 2
           /\ ScenarioAt(i, 1) =>
                 /\ reqs[i+1].resp = RespJoined
                 /\ last(1) => stored.spotsLeft = 1
           /\ ScenarioAt(i, 2) =>
                 /\ reqs[i+2].resp = RespJoined
                 /\ last(2) => stored.spotsLeft = 0
           /\ ScenarioAt(i, 3) =>
                 /\ reqs[i+3].resp = RespFull
                 /\ last(3) => stored = reqs[i+3].classDoc /\ stored.spotsLeft = 0

C9_Witness ==
    \E i \in 1..Len(reqs) : ScenarioAt(i, 3) /\ Len(reqs) = i + 3

\* users other than userId who hold an active availability document of the
\* class type that contains the slot `${day}-${time}`
OtherUsersAvailable(docs, classType, day, time, userId) ==
    {docs[i].userId : i \in {j \in 1..Len(docs) :
        /\ docs[j].userId # userId
        /\ docs[j].classType = classType
        /\ docs[j].status = "active"
        /\ Includes(docs[j].availabilities, <<day, time>>)}}

\* the step is a round of checkForMatches of request r
ChecksSlot(r) ==
    /\ Len(reqs') = Len(reqs)
    /\ reqs[r].op = "submitAvailability"
    /\ Len(reqs'[r].checks) = Len(reqs[r].checks) + 1

\* C10: checkForMatches enters class formation for a slot when exactly 2
\* other users have active availability for the same (classType, day, time)
\* and does not enter it when only 1 other user has.
C10_MatchingThreshold ==
    [][ \A r \in 1..Len(reqs) : ChecksSlot(r) =>
          LET entry == reqs'[r].checks[Len(reqs'[r].checks)]
              others == OtherUsersAvailable(avail, reqs[r].data.classType,
                            entry.day, entry.time, reqs[r].data.userId)
          IN /\ Cardinality(others) = 2 => entry.wouldCreateClass
             /\ Cardinality(others) = 1 => ~ entry.wouldCreateClass ]_vars

\* the users taking part in a match: the submitter and the matched users
Participants(userId, matches) ==
    {userId} \cup {matches[i].userId : i \in 1..Len(matches)}

MinClassSize == 3

\* C11: whenever checkForMatches judges a slot eligible for class formation
\* there are at least 3 distinct participating users, the submitter
\* included, also when a user has submitted the slot more than once.
C11_EligibleHasThreeUsers ==
    [][ \A r \in 1..Len(reqs) : ChecksSlot(r) =>
          LET entry == reqs'[r].checks[Len(reqs'[r].checks)]
          IN entry.wouldCreateClass =>
                Cardinality(Participants(reqs[r].data.userId, entry.matches))
                    >= MinClassSize ]_vars

\* the documents of the store that qualify for a findMatches request
Qualifies(doc, data) ==
    /\ doc.status = "active"
    /\ doc.classType = data.classType
    /\ \E i \in 1..Len(doc.availabilities) :
          doc.availabilities[i] = <<data.day, data.time>>
    /\ data.excludeUserId # << >> => doc.userId # data.excludeUserId[1]

\* C12: findMatches with excludeUserId = U never returns an entry whose
\* userId is U, whatever the store holds and for each of U's documents.
C12_ExcludedUserNotReturned ==
    \A r \in 1..Len(reqs) :
       (reqs[r].op = "findMatches" /\ reqs[r].data.excludeUserId # << >>) =>
          \A i \in 1..Len(reqs[r].resp.matches) :
             reqs[r].resp.matches[i].userId # reqs[r].data.excludeUserId[1]

\* a findMatches request that excluded a user with a document that
\* otherwise qualifies, and returned another user's document
C12_Witness ==
    \E r \in 1..Len(reqs) :
       /\ reqs[r].op = "findMatches"
       /\ reqs[r].data.excludeUserId # << >>
       /\ Len(reqs[r].resp.matches) >= 1
       /\ \E id \in 1..Len(avail) :
             /\ avail[id].userId = reqs[r].data.excludeUserId[1]
             /\ Qualifies(avail[id], [reqs[r].data EXCEPT !.excludeUserId = << >>])

\* C13: findMatches returns exactly the documents that are Active, have
\* the requested classType, contain the slot 'day-time' and belong to a user
\* other than excludeUserId, each once, with its userId; the answer is a
\* success also when the list is empty.
C13_FindMatchesExact ==
    [][ Arrives("findMatches") =>
          LET req == reqs'[Len(reqs')]
              matches == req.resp.matches
          IN /\ req.resp.status = 200 /\ req.resp.success
             /\ {matches[i].availabilityId : i \in 1..Len(matches)}
                   = {id \in 1..Len(avail) : Qualifies(avail[id], req.data)}
             /\ \A i, j \in 1..Len(matches) :
                   matches[i].availabilityId = matches[j].availabilityId => i = j
             /\ \A i \in 1..Len(matches) :
                   matches[i].userId = avail[matches[i].availabilityId].userId ]_vars

\* a findMatches request that returned a document while the store holds an
\* Archived document and a document of another class type for the slot
C13_Witness ==
    \E r \in 1..Len(reqs) :
       /\ reqs[r].op = "findMatches"
       /\ Len(reqs[r].resp.matches) >= 1
       /\ \E id \in 1..Len(avail) :
             /\ avail[id].status = "archived"
             /\ Qualifies([avail[id] EXCEPT !.status = "active"], reqs[r].data)

\* a findMatches request answered with an empty list
C13_EmptyResult ==
    \E r \in 1..Len(reqs) :
       /\ reqs[r].op = "findMatches"
       /\ reqs[r].resp.matches = << >>
       /\ reqs[r].resp.success

\* the slots a completed submitAvailability request judged eligible
EligibleEntries(r) ==
    IF reqs[r].op = "submitAvailability" /\ reqs[r].pc = "done"
    THEN {reqs[r].checks[i] : i \in {j \in 1..Len(reqs[r].checks) :
                                        reqs[r].checks[j].wouldCreateClass}}
    ELSE {}

\* C14: when checkForMatches finds a slot eligible, a Class document is
\* created whose members are the submitter and all matched users, within
\* its capacity; after u1 and u2 submit 'Monday-6:00 PM' for 'mandarin' and
\* u3 submits it with checkForMatches=true a Class with u1, u2, u3 exists.
C14_EligibleSlotCreatesClass ==
    \A r \in 1..Len(reqs) : \A entry \in EligibleEntries(r) :
       \E c \in DOMAIN classes :
          /\ classes[c].day = entry.day /\ classes[c].time = entry.time
          /\ \A u \in Users :
                u \in Participants(reqs[r].data.userId, entry.matches)
                   <=> EntriesOf(classes[c].members, u) >= 1
          /\ Capacity(classes[c])

\* C15: after checkForMatches has converted a slot into a class, the
\* availability documents of every participating user are Archived, so
\* that they are not matched again.
C15_ParticipantsArchived ==
    \A r \in 1..Len(reqs) : \A entry \in EligibleEntries(r) :
       /\ avail[reqs[r].availabilityId].status = "archived"
       /\ \A i \in 1..Len(entry.matches) :
             avail[entry.matches[i].availabilityId].status = "archived"

\* the Class documents a step creates
CreatedClasses == {c \in DOMAIN classes' : c \notin DOMAIN classes}

\* C16: createClass stores spotsLeft == totalSpots - |initialMembers| for
\* every combination of supplied or omitted totalSpots and initialMembers,
\* and creates no Class document when |initialMembers| > totalSpots.
C16_CreateWithinCapacity ==
    [][ \A c \in CreatedClasses :
          /\ classes'[c].spotsLeft
                = classes'[c].totalSpots - Len(classes'[c].members)
          /\ Len(classes'[c].members) <= classes'[c].totalSpots ]_vars

\* C17: createClass with a missing classTypeId, or with one that resolves
\* to no ClassTypeDefinition, creates no Class document and returns a
\* failure response (success false, with a message).
C17_CreateNeedsClassType ==
    [][ Arrives("createClass") =>
          LET req == reqs'[Len(reqs')]
          IN (\/ req.data.classTypeId = << >>
              \/ req.data.classTypeId[1] \notin classTypes) =>
                /\ req.pc = "done"
                /\ req.resp.success = FALSE
                /\ req.resp.status >= 400
                /\ req.resp.message # ""
                /\ classes' = classes ]_vars

\* a createClass request naming a class type that does not exist has been
\* answered with a failure and the store holds no Class document
C17_Witness ==
    \E r \in 1..Len(reqs) :
       /\ reqs[r].op = "createClass"
       /\ reqs[r].data.classTypeId # << >>
       /\ reqs[r].pc = "done"
       /\ reqs[r].resp = ClassCatchResponse(ErrClassTypeNotFound)
       /\ DOMAIN classes = {}

\* request r of updateClass, whose payload has totalSpots, writes in this step
UpdateWrites(r) ==
    /\ Len(reqs') = Len(reqs)
    /\ reqs[r].op = "updateClass" /\ reqs[r].pc = "updateDocument"
    /\ reqs'[r].pc = "done"
    /\ reqs[r].data.classId \in DOMAIN classes

\* C18: after an updateClass that changes totalSpots the stored class has
\* spotsLeft == totalSpots - |members| for the members stored at that
\* moment, alone and interleaved with joinClass and leaveClass.
C18_UpdateKeepsSpotsLeft ==
    [][ \A r \in 1..Len(reqs) : UpdateWrites(r) =>
          LET classDoc == classes'[reqs[r].data.classId]
          IN classDoc.spotsLeft = classDoc.totalSpots - Len(classDoc.members) ]_vars

\* C19: updateClass rejects, without writing, a patch whose totalSpots is
\* lower than the current number of members.
C19_UpdateBelowMembersRejected ==
    [][ \A r \in 1..Len(reqs) :
          (/\ UpdateWrites(r)
           /\ reqs[r].data.totalSpots[1]
                 < Len(classes[reqs[r].data.classId].members)) =>
             /\ classes' = classes
             /\ reqs'[r].resp.success = FALSE ]_vars

\* C20: a class has status Active when it is created, and its status
\* changes only through cancelClass (to cancelled) and reactivateClass (to
\* active); joinClass, leaveClass and updateClass never change it.
C20_StatusOnlyByCancelReactivate ==
    [][ \A c \in DOMAIN classes' :
          IF c \notin DOMAIN classes THEN classes'[c].status = "active"
          ELSE classes'[c].status # classes[c].status =>
                  \/ Arrives("cancelClass") /\ classes'[c].status = "cancelled"
                  \/ Arrives("reactivateClass") /\ classes'[c].status = "active" ]_vars

\* a class is cancelled, and joinClass, leaveClass or updateClass has written
\* to it after the cancellation
C20_Witness ==
    \E c \in DOMAIN classes : \E r1, r2 \in 1..Len(reqs) :
       /\ classes[c].status = "cancelled"
       /\ r1 < r2
       /\ reqs[r1].op = "cancelClass" /\ reqs[r1].data.classId = c
       /\ reqs[r1].resp.success
       /\ reqs[r2].op \in {"joinClass", "leaveClass", "updateClass"}
       /\ reqs[r2].data.classId = c
       /\ reqs[r2].pc = "done" /\ reqs[r2].resp.success

\* C21: joinClass, leaveClass and updateClass against a class whose status
\* is Cancelled are rejected with a failure response and leave the class
\* document unchanged.
C21_CancelledClassRejectsMutation ==
    [][ \A op \in {"joinClass", "leaveClass", "updateClass"} :
          Arrives(op) =>
             LET req == reqs'[Len(reqs')]
                 c == req.data.classId
             IN (c \in DOMAIN classes /\ classes[c].status = "cancelled") =>
                   /\ req.pc = "done"
                   /\ req.resp.success = FALSE
                   /\ classes' = classes ]_vars

\* request r of deleteClassType deletes the class type in this step
TypeDeletes(r) ==
    /\ Len(reqs') = Len(reqs)
    /\ reqs[r].op = "deleteClassType" /\ reqs[r].pc = "deleteDocument"
    /\ reqs'[r].pc = "done" /\ reqs'[r].resp = RespTypeDeleted

\* C22: deleteClassType for a class type that at least one Class references
\* returns a failure response and deletes nothing; a class type is deleted
\* only by a request whose check found no Class referencing it.
C22_ReferencedTypeNotDeleted ==
    [][ /\ Arrives("deleteClassType") =>
             LET req == reqs'[Len(reqs')]
                 referenced == \E c \in DOMAIN classes :
                                  classes[c].classTypeId = req.data.classTypeId
             IN /\ classTypes' = classTypes
                /\ referenced => /\ req.pc = "done"
                                 /\ req.resp.success = FALSE
                                 /\ req.resp.message # ""
                /\ ~referenced => req.pc = "deleteDocument"
        /\ \A ct \in classTypes \ classTypes' :
              \E r \in 1..Len(reqs) :
                 TypeDeletes(r) /\ reqs[r].data.classTypeId = ct ]_vars

\* a deleteClassType request was refused while a Class references the type,
\* and the type is still there
C22_Witness ==
    \E r \in 1..Len(reqs) :
       /\ reqs[r].op = "deleteClassType"
       /\ reqs[r].resp.status = 400
       /\ reqs[r].data.classTypeId \in classTypes
       /\ \E c \in DOMAIN classes : classes[c].classTypeId = reqs[r].data.classTypeId

\* C23: in every reachable state every Class's classTypeId refers to an
\* existing ClassTypeDefinition.
C23_ReferentialIntegrity ==
    \A c \in DOMAIN classes : classes[c].classTypeId \in classTypes

\* request r of joinClass gets the outcome of its notification call in this step
Notifies(r) ==
    /\ Len(reqs') = Len(reqs)
    /\ reqs[r].op = "joinClass"
    /\ reqs'[r].email # reqs[r].email

\* C24: if the notification call made by joinClass fails (throws or
\* reports status 'failed'), the membership write already persisted is not
\* rolled back and joinClass still returns success.
C24_NotificationFailureKeepsJoin ==
    [][ \A r \in 1..Len(reqs) :
          (Notifies(r) /\ reqs'[r].email \in {"failed", "threw"}) =>
             /\ classes' = classes
             /\ reqs'[r].pc = "done"
             /\ reqs'[r].resp.success
             /\ reqs'[r].resp.status = 200 ]_vars

\* a joinClass whose notification call threw has answered success and the
\* member it wrote is in the class
C24_Witness ==
    \E r \in 1..Len(reqs) :
       /\ reqs[r].op = "joinClass" /\ reqs[r].pc = "done"
       /\ reqs[r].email = "threw"
       /\ reqs[r].resp = RespJoined
       /\ reqs[r].data.classId \in DOMAIN classes
       /\ EntriesOf(classes[reqs[r].data.classId].members, reqs[r].data.userId) >= 1

\* C25: joinClass invokes the notifier only after its membership write has
\* been persisted, at most once per request, and never when the request
\* ends in Full, AlreadyJoined, NotFound or a store failure.
C25_NotifyOnlyAfterWrite ==
    [][ \A r \in 1..Len(reqs') : reqs'[r].op = "joinClass" =>
          /\ r > Len(reqs) => reqs'[r].email = "none"
          /\ reqs'[r].resp.status >= 400 => reqs'[r].email = "none"
          /\ r <= Len(reqs) =>
                /\ reqs'[r].email # reqs[r].email =>
                      reqs[r].email = "none" /\ reqs[r].pc = "createExecution"
                /\ (reqs'[r].pc = "createExecution" /\ reqs[r].pc # "createExecution") =>
                      /\ reqs[r].pc = "updateDocument"
                      /\ reqs[r].email = "none"
                      /\ EntriesOf(classes'[reqs[r].data.classId].members,
                                   reqs[r].data.userId) >= 1 ]_vars

\* one joinClass has been notified after its write, another has ended in a
\* store failure of its write without notification
C25_Witness ==
    \E r1, r2 \in 1..Len(reqs) :
       /\ reqs[r1].op = "joinClass" /\ reqs[r1].pc = "done"
       /\ reqs[r1].email # "none" /\ reqs[r1].resp = RespJoined
       /\ reqs[r2].op = "joinClass" /\ reqs[r2].pc = "done"
       /\ reqs[r2].classDoc # NoDoc
       /\ reqs[r2].resp = ClassCatchResponse(ErrStore)
       /\ reqs[r2].email = "none"

\* the catch handler answers request r in this step
Caught(r) ==
    /\ "errorDetails" \in DOMAIN reqs'[r].resp
    /\ r > Len(reqs) \/ reqs[r].pc # "done"

\* C26: if the store read or the store write of joinClass, leaveClass or
\* updateClass fails, the request ends with a failure response (status 500,
\* success false), the store call is not retried, no notification is sent
\* and the class document is left as it was.
C26_StoreFailureEndsRequest ==
    [][ \A r \in 1..Len(reqs') :
          reqs'[r].op \in {"joinClass", "leaveClass", "updateClass"} =>
             LET c == reqs'[r].data.classId
                 readFails == r > Len(reqs) /\ c \notin DOMAIN classes
                 writeFails == /\ r <= Len(reqs)
                               /\ reqs[r].pc = "updateDocument"
                               /\ reqs'[r] # reqs[r]
                               /\ c \notin DOMAIN classes
             IN /\ (readFails \/ writeFails) => Caught(r)
                /\ Caught(r) =>
                      /\ reqs'[r].resp.status = 500
                      /\ reqs'[r].resp.success = FALSE
                      /\ reqs'[r].pc = "done"
                      /\ reqs'[r].email = "none"
                      /\ classes' = classes
                      /\ r <= Len(reqs) => reqs[r].pc = "updateDocument"
                /\ (r <= Len(reqs) /\ reqs[r].pc = "done") => reqs'[r] = reqs[r] ]_vars

\* a request has read the class, its write has failed, and the class is as
\* the request read it
C26_Witness ==
    \E r \in 1..Len(reqs) :
       /\ reqs[r].op \in {"joinClass", "leaveClass", "updateClass"}
       /\ reqs[r].pc = "done"
       /\ reqs[r].resp = ClassCatchResponse(ErrStore)
       /\ reqs[r].classDoc # NoDoc
       /\ reqs[r].data.classId \in DOMAIN classes
       /\ classes[reqs[r].data.classId] = reqs[r].classDoc

\* request r of joinClass writes the class in this step
JoinWrites(r) ==
    /\ Len(reqs') = Len(reqs)
    /\ reqs[r].op = "joinClass" /\ reqs[r].pc = "updateDocument"
    /\ reqs'[r].pc = "createExecution"

\* C27: under contention on one class a joinClass request reads, attempts
\* a conditional write and retries on version mismatch a bounded number of
\* times: its write is applied only to the version of the class document
\* it read.
C27_JoinWriteIsConditional ==
    [][ \A r \in 1..Len(reqs) :
          JoinWrites(r) => classes[reqs[r].data.classId] = reqs[r].classDoc ]_vars

\* C28: each submitAvailability request creates exactly one new
\* availability document, Active, holding the given userId, classType and
\* slots, and leaves every existing availability document unchanged; no
\* step deletes an availability document.
C28_SubmitCreatesOneDocument ==
    [][ /\ Len(avail') >= Len(avail)
        /\ \A id \in 1..Len(avail) : avail'[id] = avail[id]
        /\ IF Arrives("submitAvailability")
           THEN LET req == reqs'[Len(reqs')]
                    doc == avail'[Len(avail')]
                IN /\ Len(avail') = Len(avail) + 1
                   /\ req.availabilityId = Len(avail')
                   /\ doc.userId = req.data.userId
                   /\ doc.classType = req.data.classType
                   /\ doc.availabilities = req.data.availabilities
                   /\ doc.status = "active"
           ELSE avail' = avail ]_vars

\* a user holds two Active availability documents for the same class type
C28_Witness ==
    \E i, j \in 1..Len(avail) :
       /\ i < j
       /\ avail[i].userId = avail[j].userId
       /\ avail[i].classType = avail[j].classType
       /\ avail[i].status = "active" /\ avail[j].status = "active"

\* C29: every response of every action handler carries a success flag and
\* the action name echoed back, and every failure response carries a
\* message, the responses of the catch handler included.
C29_ResponseEnvelope ==
    \A r \in 1..Len(reqs) : reqs[r].pc = "done" =>
       /\ "success" \in DOMAIN reqs[r].resp
       /\ "action" \in DOMAIN reqs[r].resp
       /\ reqs[r].resp.action = reqs[r].op
       /\ reqs[r].resp.success = FALSE => "message" \in DOMAIN reqs[r].resp

\* C30: joinClass, leaveClass, updateClass, cancelClass, reactivateClass
\* and deleteClass on a classId that does not resolve return status 400 with
\* success false; a status of 500 is returned only for unexpected errors.
C30_NotFoundIs400 ==
    [][ \A op \in {"joinClass", "leaveClass", "updateClass", "cancelClass",
                   "reactivateClass", "deleteClass"} :
          Arrives(op) =>
             LET req == reqs'[Len(reqs')]
             IN req.data.classId \notin DOMAIN classes =>
                   /\ req.pc = "done"
                   /\ req.resp.status = 400
                   /\ req.resp.success = FALSE ]_vars

\* a request arrives that names no action, or none the handler knows
ArrivesInvalid ==
    /\ Len(reqs') = Len(reqs) + 1
    /\ "function" \in DOMAIN reqs'[Len(reqs')].data

\* C31: a request with no action field, or with an action name the handler
\* does not know, returns a failure response (status 400, success false)
\* and performs no store read or write.
C31_InvalidActionRejected ==
    [][ ArrivesInvalid =>
          LET req == reqs'[Len(reqs')]
          IN /\ req.pc = "done"
             /\ req.resp.status = 400
             /\ req.resp.success = FALSE
             /\ req.resp.message # ""
             /\ req.classDoc = NoDoc
             /\ UNCHANGED <<classTypes, classes, avail>> ]_vars

\* both kinds of request have been answered while the store holds a class
C31_Witness ==
    /\ DOMAIN classes # {}
    /\ \E r1, r2 \in 1..Len(reqs) :
          /\ "function" \in DOMAIN reqs[r1].data /\ reqs[r1].data.action = << >>
          /\ reqs[r1].resp = RespNoAction
          /\ "function" \in DOMAIN reqs[r2].data /\ reqs[r2].data.action # << >>
          /\ reqs[r2].resp.status = 400

\* the class document after the step differs from the one before it in the
\* given attributes at most
OnlyChanges(c, attributes) ==
    /\ c \in DOMAIN classes'
    /\ DOMAIN classes'[c] = DOMAIN classes[c] \cup attributes
    /\ \A f \in DOMAIN classes[c] \ attributes : classes'[c][f] = classes[c][f]

\* C33: cancelClass and reactivateClass change only status and their
\* timestamp and reason fields; every cancelClass call stores its own
\* cancelledAt and cancelReason, a second call overwriting the first, and a
\* missing reason is stored as 'No reason provided'.
C33_CancelReactivateFrame ==
    [][ /\ Arrives("cancelClass") =>
             LET req == reqs'[Len(reqs')]
                 c == req.data.classId
             IN c \in DOMAIN classes =>
                   /\ OnlyChanges(c, {"status", "cancelledAt", "cancelReason"})
                   /\ classes'[c].status = "cancelled"
                   /\ classes'[c].cancelledAt = Len(reqs')
                   /\ classes'[c].cancelReason =
                         IF req.data.reason = << >> THEN "No reason provided"
                         ELSE req.data.reason[1]
        /\ Arrives("reactivateClass") =>
             LET c == reqs'[Len(reqs')].data.classId
             IN c \in DOMAIN classes =>
                   /\ OnlyChanges(c, {"status", "reactivatedAt"})
                   /\ classes'[c].status = "active"
                   /\ classes'[c].reactivatedAt = Len(reqs') ]_vars

\* a class with a member has been cancelled with a reason and then again
\* without one, and holds the time and the default reason of the second call
C33_Witness ==
    \E c \in DOMAIN classes : \E r1, r2 \in 1..Len(reqs) :
       /\ r1 < r2
       /\ reqs[r1].op = "cancelClass" /\ reqs[r1].data.reason # << >>
       /\ reqs[r1].resp.status = 200
       /\ reqs[r2].op = "cancelClass" /\ reqs[r2].data.reason = << >>
       /\ reqs[r2].resp.status = 200
       /\ classes[c].cancelledAt = r2
       /\ classes[c].cancelReason = NoReasonProvided
       /\ Len(classes[c].members) >= 1

\* request r of leaveClass writes the class in this step
LeaveWrites(r) ==
    /\ Len(reqs') = Len(reqs)
    /\ reqs[r].op = "leaveClass" /\ reqs[r].pc = "updateDocument"
    /\ reqs'[r].resp = RespLeft

\* C34: a successful joinClass appends exactly one Member at the end of the
\* stored members and leaves the existing entries and their order unchanged;
\* a successful leaveClass removes the entries of its userId and leaves the
\* others and their order unchanged; no step edits a Member in place.
C34_RosterFrame ==
    [][ \A r \in 1..Len(reqs) :
          LET c == reqs[r].data.classId
          IN /\ JoinWrites(r) =>
                  /\ Len(classes'[c].members) = Len(classes[c].members) + 1
                  /\ SubSeq(classes'[c].members, 1, Len(classes[c].members))
                        = classes[c].members
                  /\ IsMemberString(classes'[c].members[Len(classes'[c].members)],
                                    reqs[r].data.userId)
             /\ LeaveWrites(r) =>
                  classes'[c].members = FilterLeave(classes[c].members,
                                                    reqs[r].data.userId) ]_vars

\* the slots of a submission that pass the format test, in order
RECURSIVE ValidSlots(_)
ValidSlots(availabilities) ==
    IF availabilities = << >> THEN << >>
    ELSE (IF InvalidSlot(Head(availabilities)) THEN << >>
          ELSE << Head(availabilities) >>) \o ValidSlots(Tail(availabilities))

\* the check of a slot failed
Failed(entry) == "error" \in DOMAIN entry

C36_OneResultPerUser ==
    \A r \in 1..Len(reqs) :
       reqs[r].op = "newMatch" =>
          LET req == reqs[r]
              userIds == req.data.userIds
          IN /\ Len(req.results) <= Len(userIds)
             /\ \A i \in 1..Len(req.results) :
                   /\ req.results[i].userId = userIds[i]
                   /\ req.results[i].status \in {"success", "error"}
             /\ req.pc = "done" =>
                   /\ Len(req.results) = Len(userIds)
                   /\ req.resp.status = 200
                   /\ req.resp.notificationResults = req.results

\* a newMatch for two users has returned: the first user could not be looked
\* up and the second was sent the mail
C36_Witness ==
    \E r \in 1..Len(reqs) :
       /\ reqs[r].op = "newMatch" /\ reqs[r].pc = "done"
       /\ reqs[r].data.userIds = <<"u1", "u2">>
       /\ reqs[r].resp.notificationResults =
             << [userId |-> "u1", status |-> "error", error |-> "getThrows"],
                [userId |-> "u2", status |-> "success", methods |-> <<"email">>] >>

\* request r of createClass creates its class document in this step
CreateWrites(r) ==
    /\ Len(reqs') = Len(reqs)
    /\ reqs[r].op = "createClass" /\ reqs[r].pc = "createDocument"
    /\ reqs'[r].pc = "done"

\* C37: createClass stores totalSpots equal to the supplied value for every
\* supplied integer >= 0, 0 included, and stores 5 only when totalSpots is
\* omitted.
C37_TotalSpotsAsSupplied ==
    [][ \A r \in 1..Len(reqs) :
          CreateWrites(r) =>
             \A c \in CreatedClasses :
                classes'[c].totalSpots =
                   IF reqs[r].data.totalSpots = << >> THEN 5
                   ELSE reqs[r].data.totalSpots[1] ]_vars

\* request r of getAllClasses lists the classes in this step
ListsAll(r) ==
    IF r > Len(reqs)
    THEN reqs'[r].op = "getAllClasses" /\ reqs'[r].data.classType \in {<< >>, <<"all">>}
    ELSE reqs[r].op = "getAllClasses" /\ reqs[r].pc = "listDocuments"
            /\ reqs'[r].pc # "listDocuments"

\* request r of getAllClasses returns in this step
ReturnsAll(r) ==
    /\ reqs'[r].op = "getAllClasses" /\ reqs'[r].pc = "done"
    /\ r <= Len(reqs) => reqs[r].pc # "done"

\* rate is the integer nearest to 100 * members / totalSpots, the upper one
\* on a tie
NearestPercent(rate, members, totalSpots) ==
    LET twiceDiff == 2 * (100 * members - rate * totalSpots)
    IN (0 - totalSpots) <= twiceDiff /\ twiceDiff < totalSpots

\* C38: for every class listed by getAllClasses the reported spotsLeft is
\* totalSpots - |members| of the stored document and the reported fillRate
\* is round(100 * |members| / totalSpots) when totalSpots > 0 and 0 when
\* totalSpots is 0 or missing; the listing writes nothing.
C38_ListingStats ==
    [][ \A r \in 1..Len(reqs') :
          /\ reqs'[r].op = "getAllClasses" /\ (r > Len(reqs) \/ reqs'[r] # reqs[r])
                => UNCHANGED <<classTypes, classes, avail>>
          /\ ListsAll(r) =>
                \A c \in DOMAIN reqs'[r].listed : reqs'[r].listed[c] = classes[c]
          /\ ReturnsAll(r) =>
                /\ DOMAIN reqs'[r].resp.classes = DOMAIN reqs'[r].listed
                /\ \A c \in DOMAIN reqs'[r].listed :
                      LET stored == reqs'[r].listed[c]
                          reported == reqs'[r].resp.classes[c]
                          hasSpots == "totalSpots" \in DOMAIN stored
                      IN /\ hasSpots =>
                              reported.spotsLeft
                                 = stored.totalSpots - Len(stored.members)
                         /\ IF hasSpots /\ stored.totalSpots > 0
                            THEN NearestPercent(reported.fillRate,
                                                Len(stored.members), stored.totalSpots)
                            ELSE reported.fillRate = 0 ]_vars

\* one listing has reported a class of 3 spots with 2 members at 67 percent
\* and a later one, after totalSpots was set to 0, at 0 percent with -2
\* spots left
C38_Witness ==
    \E r1, r2 \in 1..Len(reqs) : \E c \in ClassIds :
       /\ r1 < r2
       /\ reqs[r1].op = "getAllClasses" /\ reqs[r1].pc = "done"
       /\ c \in DOMAIN reqs[r1].resp.classes
       /\ reqs[r1].resp.classes[c].totalSpots = 3
       /\ reqs[r1].resp.classes[c].currentMembers = 2
       /\ reqs[r1].resp.classes[c].fillRate = 67
       /\ reqs[r2].op = "getAllClasses" /\ reqs[r2].pc = "done"
       /\ c \in DOMAIN reqs[r2].resp.classes
       /\ reqs[r2].resp.classes[c].totalSpots = 0
       /\ reqs[r2].resp.classes[c].fillRate = 0
       /\ reqs[r2].resp.classes[c].spotsLeft = 0 - 2

\* C39: in checkForMatches, for every submitted slot string that is not
\* skipped as invalid, the slot key findMatchingUsers searches for (day,
\* '-', time of the split slot) equals the submitted slot string.
C39_SearchKeyIsSubmittedSlot ==
    [][ \A r \in 1..Len(reqs) : ChecksSlot(r) =>
          LET entry == reqs'[r].checks[Len(reqs'[r].checks)]
              slot == reqs[r].data.availabilities[reqs[r].slot]
          IN TimeSlot(entry.day, entry.time) = slot ]_vars

\* C32: deleteClass removes the class document unconditionally, whatever
\* its status or member count, and changes no availability document and no
\* class-type document.
C32_DeleteIsUnconditional ==
    [][ Arrives("deleteClass") =>
          LET req == reqs'[Len(reqs')]
              c == req.data.classId
          IN /\ avail' = avail
             /\ classTypes' = classTypes
             /\ c \in DOMAIN classes =>
                   /\ DOMAIN classes' = DOMAIN classes \ {c}
                   /\ \A d \in DOMAIN classes' : classes'[d] = classes[d]
                   /\ req.resp.status = 200 /\ req.resp.success ]_vars

\* a cancelled class with a member has been deleted while an availability
\* document and a class type were in the store
C32_Witness ==
    \E r, k, d \in 1..Len(reqs) :
       /\ r < k /\ k < d
       /\ reqs[r].op = "createClass" /\ reqs[r].data.initialMembers # << >>
       /\ reqs[r].resp.status = 201
       /\ reqs[k].op = "cancelClass" /\ reqs[k].resp.status = 200
       /\ reqs[d].op = "deleteClass" /\ reqs[d].resp = RespClassDeleted
       /\ \A j \in (k+1)..(d-1) : reqs[j].op # "reactivateClass"
       /\ DOMAIN classes = {}
       /\ Len(avail) = 1 /\ avail[1].status = "active"
       /\ classTypes # {}

\* request r of getAvailableClasses lists the classes in this step
ListsAvailable(r) ==
    IF r > Len(reqs)
    THEN reqs'[r].op = "getAvailableClasses"
            /\ reqs'[r].data.classType \in {<< >>, <<"all">>}
    ELSE reqs[r].op = "getAvailableClasses" /\ reqs[r].pc = "listDocuments"
            /\ reqs'[r].pc # "listDocuments"

\* C40: a class is returned by getAvailableClasses only while its status is
\* Active: a listing made while the class is cancelled does not hold it and
\* a listing made after a following reactivateClass holds it again, for a
\* matching or 'all' class type filter; the response holds the listed
\* classes.
C40_ListedOnlyWhileActive ==
    [][ \A r \in 1..Len(reqs') :
          /\ ListsAvailable(r) =>
                \A c \in DOMAIN classes :
                   LET classType == reqs'[r].data.classType
                       matches == \/ classType \in {<< >>, <<"all">>}
                                  \/ /\ classes[c].classTypeId \in classTypes
                                     /\ classType[1] \in {"mandarin", "beginner"}
                   IN c \in DOMAIN reqs'[r].listed
                         <=> (classes[c].status = "active" /\ matches)
          /\ (reqs'[r].op = "getAvailableClasses" /\ reqs'[r].pc = "done") =>
                /\ reqs'[r].resp.status = 200
                /\ DOMAIN reqs'[r].resp.classes = DOMAIN reqs'[r].listed
                /\ \A c \in DOMAIN reqs'[r].resp.classes :
                      reqs'[r].resp.classes[c].status = "active" ]_vars

\* a class was cancelled, a listing with the filter 'mandarin' made then
\* came back empty, the class was reactivated, and a listing with the same
\* filter made then holds it
C40_Witness ==
    \E k, l1, a, l2 \in 1..Len(reqs) : \E c \in DOMAIN classes :
       /\ k < l1 /\ l1 < a /\ a < l2
       /\ reqs[k].op = "cancelClass" /\ reqs[k].resp.status = 200
       /\ reqs[l1].op = "getAvailableClasses" /\ reqs[l1].pc = "done"
       /\ reqs[l1].data.classType = <<"mandarin">>
       /\ reqs[l1].typeIds # << >>
       /\ c \notin DOMAIN reqs[l1].resp.classes
       /\ reqs[a].op = "reactivateClass" /\ reqs[a].resp.status = 200
       /\ reqs[l2].op = "getAvailableClasses" /\ reqs[l2].pc = "done"
       /\ reqs[l2].data.classType = <<"mandarin">>
       /\ c \in DOMAIN reqs[l2].resp.classes

====
